---- MODULE Spec2Model ----
(***************************************************************************)
(* Model of the feature cache of src/preprocessing/msaf/base.py (class     *)
(* Features: read_features, write_features, _compute_all_features, the     *)
(* features and frame_times getters, select_features) together with the    *)
(* constructors of src/preprocessing/msaf/features.py.                     *)
(*                                                                         *)
(* One dataset item is modelled: one sidecar file (file_struct.            *)
(* features_file), one piano-roll source (file_struct.audio_file) and one  *)
(* controller object at a time; a new controller can be constructed over   *)
(* the same files.                                                         *)
(*                                                                         *)
(* Four more specifications share the variables: SpecPersist (the steps    *)
(* of the sidecar write, with crashes), SpecSegment (segment_song and      *)
(* get_nearest of src/features/msaf_segmentation.py), SpecDriver (the      *)
(* driver loop of that script) and SpecDirs (the repository root search    *)
(* of src/utils/dirs.py).                                                  *)
(*                                                                         *)
(* Encodings.  Python None / JSON null is <<>> and any other value x is    *)
(* <<x>> wherever a field can be None.  A JSON object is a function whose  *)
(* domain is its key set.  Floats are kept in fixed point: tempo in        *)
(* thousandths of a beat per minute, times and durations in milliseconds.  *)
(* A feature matrix is the sequence of its rows, one integer column.       *)
(***************************************************************************)
EXTENDS Integers, Sequences, FiniteSets, TLC

VARIABLES file, audio, ctl, last, written, nwrites, wr, seg, drv, rd

vars == <<file, audio, ctl, last, written, nwrites, wr, seg, drv, rd>>

----------------------------------------------------------------------------
(* Bounds of the model *)

\* Number of times the sidecar file is written in one behaviour.
MaxWrites == 1

----------------------------------------------------------------------------
(* Optional values *)

None == <<>>

Some(x) == <<x>>

Val(o) == o[1]

Abs(x) == IF x < 0 THEN -x ELSE x

\* The empty JSON object / OrderedDict().
EmptyObj == [k \in {} |-> 0]

HasKey(obj, k) == k \in DOMAIN obj

\* obj[k] = v on a dict: the key is added or its value replaced.
Put(obj, k, v) == [x \in (DOMAIN obj) \cup {k} |-> IF x = k THEN v ELSE obj[x]]

----------------------------------------------------------------------------
(* Parameter values and their fingerprint *)

\* Python values a parameter attribute can hold: a string s, a boolean or an
\* integer n, a function named s.
PyStr(s) == [t |-> "str", s |-> s, n |-> 0]

PyBool(b) == [t |-> "bool", s |-> "", n |-> IF b THEN 1 ELSE 0]

PyInt(n) == [t |-> "int", s |-> "", n |-> n]

PyFunc(name) == [t |-> "func", s |-> name, n |-> 0]

\* hasattr(value, '__call__')
IsCallable(value) == value.t = "func"

\* str(value) for the non-callable values.
PyStrOf(value) ==
  CASE value.t = "str" -> value.s
    [] value.t = "bool" -> (IF value.n = 1 THEN "True" ELSE "False")
    [] value.t = "int" -> ToString(value.n)
    [] OTHER -> "<function>"

\* The stored form of one parameter: the function name of a callable, the
\* string form of anything else.
ParamString(value) == IF IsCallable(value) THEN value.s ELSE PyStrOf(value)

\* The attributes the feature classes set, in the order the constructors set
\* them (vars(self) keeps insertion order).
ParamOrder == <<"mode", "norm", "epsilon", "ref_power">>

\* __init__'s list of the attributes that are not parameters.
GlobalParamNames == {"file_struct", "sr", "feat_type", "hop_length", "dur", "tempo"}

\* Every attribute of a controller, in insertion order; the names starting
\* with "_" are the lazily filled fields.
AttributeOrder ==
  <<"file_struct", "sr", "hop_length", "feat_type", "dur", "tempo",
    "_features", "_framesync_features", "_est_beatsync_features",
    "_ann_beatsync_features", "_global_param_names">> \o ParamOrder

StartsWithUnderscore(name) ==
  name \in {"_features", "_framesync_features", "_est_beatsync_features",
            "_ann_beatsync_features", "_global_param_names"}

get_param_names ==
  SelectSeq(AttributeOrder,
            LAMBDA name : ~StartsWithUnderscore(name) /\ name \notin GlobalParamNames)

----------------------------------------------------------------------------
(* The controller object *)

\* FeatureTypes = Enum('FeatureTypes', 'framesync est_beatsync ann_beatsync')
FeatureTypes == {"framesync", "est_beatsync", "ann_beatsync"}

\* The file_struct of the item: the path of its piano-roll source.
AudioFile == [dir |-> "/lpd", base |-> "song.npz"]

\* os.path.basename
Basename(path) == path.base

\* No controller has been constructed yet.
NoController ==
  [alive |-> FALSE, id |-> "none", params |-> EmptyObj,
   sr |-> 0, hop_length |-> 0, feat_type |-> "none",
   dur |-> None, tempo |-> None, features |-> None,
   framesync_features |-> None, est_beatsync_features |-> None,
   ann_beatsync_features |-> None, framesync_times |-> None,
   est_beatsync_times |-> None, est_beats_times |-> None,
   ann_beatsync_times |-> None, ann_beats_times |-> None,
   arg_sr |-> 0, arg_hop_length |-> 0, arg_feat_type |-> "none"]

\* Features.__init__: the object the base constructor leaves.  arg_sr,
\* arg_hop_length and arg_feat_type record the arguments of the call; they
\* are not attributes of the object.
FeaturesInit(sr, hop_length, feat_type) ==
  [NoController EXCEPT !.alive = TRUE,
                       !.sr = 1,
                       !.hop_length = 1,
                       !.feat_type = "ann_beatsync",
                       !.arg_sr = sr,
                       !.arg_hop_length = hop_length,
                       !.arg_feat_type = feat_type]

\* The numpy reductions ref_power can name, by their __name__.
RefPowerFunctions == [max |-> "amax", min |-> "amin", median |-> "median"]

\* CQT.__init__ / MFCC.__init__: the base constructor, then the parameters.
\* The result is [out, c]: out is "ok" or the exception raised.
ClassInit(id, feat_type, sr, hop_length, mode, norm, epsilon, ref_power) ==
  LET base == FeaturesInit(sr, hop_length, feat_type) IN
  IF mode \notin {"stack", "merge"}
  THEN [out |-> "FeatureParamsError", c |-> NoController]
  ELSE IF ref_power \notin DOMAIN RefPowerFunctions
  THEN [out |-> "FeatureParamsError", c |-> NoController]
  ELSE [out |-> "ok",
        c |-> [base EXCEPT !.id = id,
                           !.params = [mode |-> PyStr(mode),
                                       norm |-> norm,
                                       epsilon |-> epsilon,
                                       ref_power |-> PyFunc(RefPowerFunctions[ref_power])]]]

\* The keys of the registry: the classes of features.py the model keeps.
features_registry == {"cqt", "mfcc"}

\* select_features: the feature type of (annot_beats, framesync), or None
\* when the combination is rejected.
SelectFeatType(annot_beats, framesync) ==
  IF ~annot_beats /\ framesync THEN Some("framesync")
  ELSE IF annot_beats /\ ~framesync THEN Some("ann_beatsync")
  ELSE IF ~annot_beats /\ ~framesync THEN Some("est_beatsync")
  ELSE None

\* select_features(features_id, file_struct, annot_beats, framesync) with the
\* defaults cfg of the configuration: [out, c].
select_features(features_id, annot_beats, framesync, cfg) ==
  LET ft == SelectFeatType(annot_beats, framesync) IN
  IF ft = None THEN [out |-> "FeatureTypeNotFound", c |-> NoController]
  ELSE IF features_id \notin features_registry
  THEN [out |-> "FeaturesNotFound", c |-> NoController]
  ELSE ClassInit(features_id, Val(ft), cfg.sr, cfg.hop_length,
                 cfg.mode, cfg.norm, cfg.epsilon, cfg.ref_power)

\* The stored params map of a controller (write_features, lines 296-303).
Fingerprint(c) ==
  [name \in {get_param_names[i] : i \in 1..Len(get_param_names)} |->
     ParamString(c.params[name])]

----------------------------------------------------------------------------
(* read_features *)

\* np.isclose(a, b, rtol=tol) with tol = 1e-3 and the default atol = 1e-8,
\* on fixed-point values: |a - b| <= atol + rtol * |b|.  The values are whole
\* numbers of thousandths, so atol never decides.
TolDen == 1000

IsClose(a, b) == Abs(a - b) * TolDen <= Abs(b)

Raise(exc, c) == [out |-> exc, c |-> c]

\* Lines 225-242: store the beat grids and the matrices of the block, one
\* assignment after the other; a KeyError leaves what was stored before it.
StoreAnnBeatsync(c, feats) ==
  IF ~HasKey(feats[c.id], "ann_beatsync") THEN Raise("WrongFeaturesFormatError", c)
  ELSE Raise("ok", [c EXCEPT !.ann_beatsync_features = Some(feats[c.id]["ann_beatsync"])])

StoreAnnBeatsyncTimes(c, feats) ==
  IF ~HasKey(feats, "ann_beatsync_times") THEN Raise("WrongFeaturesFormatError", c)
  ELSE StoreAnnBeatsync([c EXCEPT !.ann_beatsync_times = Some(feats["ann_beatsync_times"])],
                        feats)

StoreAnnBeats(c, feats) ==
  IF ~HasKey(feats, "ann_beats") THEN Raise("ok", c)
  ELSE StoreAnnBeatsyncTimes([c EXCEPT !.ann_beats_times = Some(feats["ann_beats"])], feats)

StoreEstBeatsync(c, feats) ==
  IF ~HasKey(feats[c.id], "est_beatsync") THEN Raise("WrongFeaturesFormatError", c)
  ELSE StoreAnnBeats([c EXCEPT !.est_beatsync_features = Some(feats[c.id]["est_beatsync"])],
                     feats)

StoreFramesync(c, feats) ==
  IF ~HasKey(feats[c.id], "framesync") THEN Raise("WrongFeaturesFormatError", c)
  ELSE StoreEstBeatsync([c EXCEPT !.framesync_features = Some(feats[c.id]["framesync"])],
                        feats)

StoreEstBeatsyncTimes(c, feats) ==
  IF ~HasKey(feats, "est_beatsync_times") THEN Raise("WrongFeaturesFormatError", c)
  ELSE StoreFramesync([c EXCEPT !.est_beatsync_times = Some(feats["est_beatsync_times"])],
                      feats)

ReadStore(c, feats) ==
  IF ~HasKey(feats, "est_beats") THEN Raise("WrongFeaturesFormatError", c)
  ELSE StoreEstBeatsyncTimes([c EXCEPT !.est_beats_times = Some(feats["est_beats"])], feats)

\* A parameter loop that compares only the parameters that are not functions.
RECURSIVE ParamsCheckSkippingFunctions(_, _, _)
ParamsCheckSkippingFunctions(c, block, i) ==
  IF i > Len(get_param_names) THEN "ok"
  ELSE IF ~HasKey(block, "params") THEN "WrongFeaturesFormatError"
  ELSE IF ~HasKey(block["params"], get_param_names[i]) THEN "WrongFeaturesFormatError"
  ELSE IF /\ ~IsCallable(c.params[get_param_names[i]])
          /\ PyStrOf(c.params[get_param_names[i]]) # block["params"][get_param_names[i]]
  THEN "FeatureParamsError"
  ELSE ParamsCheckSkippingFunctions(c, block, i + 1)

\* Lines 213-223: the loop over the parameter names, from the i-th on.
\* "ok" when every stored string equals the controller's.
RECURSIVE ParamsCheck(_, _, _)
ParamsCheck(c, block, i) ==
  IF i > Len(get_param_names) THEN "ok"
  ELSE IF ~HasKey(block, "params") THEN "WrongFeaturesFormatError"
  ELSE IF ~HasKey(block["params"], get_param_names[i]) THEN "WrongFeaturesFormatError"
  ELSE IF ParamString(c.params[get_param_names[i]]) # block["params"][get_param_names[i]]
  THEN "FeatureParamsError"
  ELSE ParamsCheck(c, block, i + 1)

AfterParamsCheck(r, c, feats) == IF r # "ok" THEN Raise(r, c) ELSE ReadStore(c, feats)

\* Lines 207-223: the block of the feature id and its parameters.
ReadBlock(c, feats) ==
  IF ~HasKey(feats, c.id) THEN Raise("FeatureParamsError", c)
  ELSE AfterParamsCheck(ParamsCheck(c, feats[c.id], 1), c, feats)

\* A read_features that looks for the block of the feature id and compares
\* its parameters before it asserts the global parameters.
AssertGlobalsAfterBlock(c, g, feats) ==
  IF ~HasKey(feats, c.id) THEN Raise("FeatureParamsError", c)
  ELSE IF ParamsCheck(c, feats[c.id], 1) = "FeatureParamsError"
  THEN Raise("FeatureParamsError", c)
  ELSE IF ~HasKey(g, "dur") THEN Raise("WrongFeaturesFormatError", c)
  ELSE IF ~IsClose(Val(c.dur), g["dur"]) THEN Raise("FeaturesNotFound", c)
  ELSE IF ~HasKey(g, "tempo") THEN Raise("WrongFeaturesFormatError", c)
  ELSE IF ~IsClose(Val(c.tempo), g["tempo"]) THEN Raise("FeaturesNotFound", c)
  ELSE IF ~HasKey(g, "sample_rate") THEN Raise("WrongFeaturesFormatError", c)
  ELSE IF c.sr # g["sample_rate"] THEN Raise("FeaturesNotFound", c)
  ELSE IF ~HasKey(g, "hop_length") THEN Raise("WrongFeaturesFormatError", c)
  ELSE IF c.hop_length # g["hop_length"] THEN Raise("FeaturesNotFound", c)
  ELSE IF ~HasKey(g, "audio_file") THEN Raise("WrongFeaturesFormatError", c)
  ELSE IF Basename(AudioFile) # Basename(g["audio_file"]) THEN Raise("FeaturesNotFound", c)
  ELSE ReadBlock(c, feats)

\* Lines 197-205: the assertions on the global parameters.
AssertGlobals(c, g, feats) ==
  IF ~HasKey(g, "dur") THEN Raise("WrongFeaturesFormatError", c)
  ELSE IF ~IsClose(Val(c.dur), g["dur"]) THEN Raise("FeaturesNotFound", c)
  ELSE IF ~HasKey(g, "tempo") THEN Raise("WrongFeaturesFormatError", c)
  ELSE IF ~IsClose(Val(c.tempo), g["tempo"]) THEN Raise("FeaturesNotFound", c)
  ELSE IF ~HasKey(g, "sample_rate") THEN Raise("WrongFeaturesFormatError", c)
  ELSE IF c.sr # g["sample_rate"] THEN Raise("FeaturesNotFound", c)
  ELSE IF ~HasKey(g, "hop_length") THEN Raise("WrongFeaturesFormatError", c)
  ELSE IF c.hop_length # g["hop_length"] THEN Raise("FeaturesNotFound", c)
  ELSE IF ~HasKey(g, "audio_file") THEN Raise("WrongFeaturesFormatError", c)
  ELSE IF Basename(AudioFile) # Basename(g["audio_file"]) THEN Raise("FeaturesNotFound", c)
  ELSE ReadBlock(c, feats)

ReadGlobals(c, feats) == AssertGlobals(c, feats["globals"], feats)

\* Lines 191-195: a controller that has no duration or tempo yet takes the
\* stored ones.
StoreTempo(c, feats) ==
  IF c.tempo # None THEN ReadGlobals(c, feats)
  ELSE IF ~HasKey(feats["globals"], "tempo") THEN Raise("WrongFeaturesFormatError", c)
  ELSE ReadGlobals([c EXCEPT !.tempo = Some(feats["globals"]["tempo"])], feats)

StoreDur(c, feats) ==
  IF c.dur # None THEN StoreTempo(c, feats)
  ELSE IF ~HasKey(feats["globals"], "dur") THEN Raise("WrongFeaturesFormatError", c)
  ELSE StoreTempo([c EXCEPT !.dur = Some(feats["globals"]["dur"])], feats)

ReadDurTempo(c, feats) ==
  IF ~HasKey(feats, "globals") THEN Raise("WrongFeaturesFormatError", c)
  ELSE StoreDur(c, feats)

\* read_features on controller c and sidecar f: [out, c].  A sidecar that is
\* not JSON makes json.load raise a ValueError, which no handler of
\* read_features catches.
read_features(c, f) ==
  IF f.kind = "absent" THEN Raise("NoFeaturesFileError", c)
  ELSE IF f.kind = "garbage" THEN Raise("ValueError", c)
  ELSE ReadDurTempo(c, f.obj)

----------------------------------------------------------------------------
(* _compute_all_features *)

\* Milliseconds in a minute, times the thousand of the tempo's fixed point:
\* (60. / tempo) * k seconds is SecondsPerMinute * k / tempo milliseconds.
SecondsPerMinute == 60000000

\* (60. / self.tempo) * k
BeatTime(tempo, k) == (SecondsPerMinute * k) \div tempo

\* (60. / self.tempo) * np.arange(0, stop, step)
TimeGrid(tempo, stop, step) ==
  [i \in 1..((stop + step - 1) \div step) |-> BeatTime(tempo, (i - 1) * step)]

\* compute_beat_sync_features: the matrix is reshaped to
\* (beat_resolution, N // beat_resolution, F) and summed over its first axis,
\* so row j of the result adds the rows j, j + N // r, j + 2 (N // r), ...
\* None when the reshape is rejected (N is not a multiple of r).
RECURSIVE SumRows(_, _, _, _)
SumRows(m, j, stride, k) ==
  IF k = 0 THEN 0 ELSE m[(k - 1) * stride + j] + SumRows(m, j, stride, k - 1)

BeatSync(m, r) ==
  LET n == Len(m) \div r IN
  IF r * n # Len(m) THEN None
  ELSE Some([j \in 1..n |-> SumRows(m, j, n, r)])

AfterBeatSync(b, c) ==
  IF b = None THEN Raise("ValueError", c)
  ELSE Raise("ok", [c EXCEPT !.ann_beatsync_features = b, !.est_beatsync_features = b])

compute_beat_sync_features(c, a) ==
  IF c.framesync_features = None THEN Raise("RuntimeError", c)
  ELSE AfterBeatSync(BeatSync(Val(c.framesync_features), a.beat_resolution), c)

\* compute_features of the class: CQT in 'stack' mode names a list it never
\* bound (NameError, None here); the other cases return the matrix m of the
\* extractor.
compute_features(c, m) ==
  IF c.id = "cqt" /\ c.params["mode"] = PyStr("stack") THEN None ELSE Some(m)

\* Lines 348-350: the extractor, then the beat-synchronous matrices.
AfterComputeFeatures(fs, c, a) ==
  IF fs = None THEN Raise("NameError", c)
  ELSE compute_beat_sync_features([c EXCEPT !.framesync_features = fs], a)

\* Lines 335-346: tempo, duration and the time grids of the loaded source.
SetTimes(c, a, beats) ==
  [c EXCEPT !.tempo = Some(a.tempo),
            !.dur = Some(BeatTime(a.tempo, a.num_timestep)),
            !.framesync_times = Some(TimeGrid(a.tempo, a.num_timestep, 1)),
            !.ann_beats_times = Some(beats),
            !.ann_beatsync_times = Some(beats),
            !.est_beats_times = Some(beats),
            !.est_beatsync_times = Some(beats)]

ComputeLoaded(c, a, m) == AfterComputeFeatures(compute_features(c, m), c, a)

\* _compute_all_features on source a, the extractor returning m: [out, c].
compute_all_features(c, a, m) ==
  IF ~a.exists THEN Raise("IOError", c)
  ELSE ComputeLoaded(SetTimes(c, a, TimeGrid(a.tempo, a.num_timestep, a.beat_resolution)),
                     a, m)

----------------------------------------------------------------------------
(* write_features *)

\* json.dump of a value that may be None.
JsonOf(o) == IF o = None THEN "null" ELSE Val(o)

\* Lines 265-287: the record built when the file is created or overwritten:
\* [exc, obj], exc the AttributeError of a missing beat grid (None.tolist())
\* and obj what out_json holds when the handler is left.
Handler(exc, obj) == [exc |-> exc, obj |-> obj]

RebuildAnnBeats(c, obj) ==
  IF c.ann_beats_times = None THEN Handler("ok", obj)
  ELSE IF c.ann_beatsync_times = None
  THEN Handler("AttributeError", Put(obj, "ann_beats", Val(c.ann_beats_times)))
  ELSE Handler("ok", Put(Put(obj, "ann_beats", Val(c.ann_beats_times)),
                         "ann_beatsync_times", Val(c.ann_beatsync_times)))

RebuildBeats(c, obj) ==
  IF c.est_beats_times = None THEN Handler("AttributeError", obj)
  ELSE IF c.est_beatsync_times = None
  THEN Handler("AttributeError", Put(obj, "est_beats", Val(c.est_beats_times)))
  ELSE RebuildAnnBeats(c, Put(Put(obj, "est_beats", Val(c.est_beats_times)),
                              "est_beatsync_times", Val(c.est_beatsync_times)))

Rebuild(c, stamp) ==
  RebuildBeats(c, [metadata |-> [versions |-> "librosa msaf numpy", timestamp |-> stamp],
                   globals |-> [dur |-> JsonOf(c.dur), tempo |-> JsonOf(c.tempo),
                                sample_rate |-> c.sr, hop_length |-> c.hop_length,
                                audio_file |-> AudioFile]])

\* A write_features that builds the record anew after every failure of
\* read_features it handles.
OutJsonAlwaysRebuilt(out, c, f, stamp) ==
  IF out \in {"WrongFeaturesFormatError", "FeaturesNotFound", "NoFeaturesFileError",
              "FeatureParamsError"}
  THEN Rebuild(c, stamp)
  ELSE Handler(out, EmptyObj)

\* Lines 257-291: out_json when the finally clause is entered, and the
\* exception pending there, after read_features ended with out.
OutJson(out, c, f, stamp) ==
  IF out \in {"WrongFeaturesFormatError", "FeaturesNotFound", "NoFeaturesFileError"}
  THEN Rebuild(c, stamp)
  ELSE IF out = "FeatureParamsError" THEN Handler("ok", f.obj)
  ELSE Handler(out, EmptyObj)

\* Lines 293-312: the block of the current features, None when a matrix is
\* missing (None.tolist() raises before the file is opened).
BlockOf(c) ==
  [params |-> Fingerprint(c),
   framesync |-> Val(c.framesync_features),
   est_beatsync |-> Val(c.est_beatsync_features)]

CurrentBlock(c) ==
  IF c.framesync_features = None \/ c.est_beatsync_features = None THEN None
  ELSE IF c.ann_beatsync_features = None THEN Some(BlockOf(c))
  ELSE Some(Put(BlockOf(c), "ann_beatsync", Val(c.ann_beatsync_features)))

Written(out, c, f, wrote) == [out |-> out, c |-> c, f |-> f, wrote |-> wrote]

\* Lines 292-316: the finally clause: the block is put into out_json and the
\* file is written; the pending exception, if any, goes on.
Finally(o, b, c, f) ==
  IF b = None THEN Written("AttributeError", c, f, FALSE)
  ELSE Written(o.exc, c, [kind |-> "json", obj |-> Put(o.obj, c.id, Val(b))], TRUE)

WriteAfterRead(r, f, stamp) ==
  Finally(OutJson(r.out, r.c, f, stamp), CurrentBlock(r.c), r.c, f)

\* write_features on controller c and sidecar f at time stamp:
\* [out, c, f, wrote].
write_features(c, f, stamp) == WriteAfterRead(read_features(c, f), f, stamp)

----------------------------------------------------------------------------
(* The features and frame_times getters *)

\* The exceptions of read_features the features getter catches (line 383).
CaughtByFeatures ==
  {"NoFeaturesFileError", "FeaturesNotFound", "WrongFeaturesFormatError",
   "FeatureParamsError"}

\* What a getter call leaves: the exception or "ok", the controller, the
\* sidecar, the value returned, how the first read_features ended ("skipped"
\* when the matrix was already chosen), and whether the source was loaded,
\* the extractor ran, the sidecar was written.
Outcome(out, c, f, ret, read_out, loaded, computed, wrote) ==
  [out |-> out, c |-> c, f |-> f, ret |-> ret, read_out |-> read_out,
   loaded |-> loaded, computed |-> computed, wrote |-> wrote]

\* Lines 399-414: the matrix of the feature type, after a call that left
\* sidecar f and the flags of o.
Chosen(c, matrix, o) ==
  Outcome("ok", [c EXCEPT !.features = matrix], o.f, matrix,
          o.read_out, o.loaded, o.computed, o.wrote)

ChooseFeatures(c, o) ==
  IF c.feat_type = "framesync" THEN Chosen(c, c.framesync_features, o)
  ELSE IF c.feat_type = "est_beatsync" THEN Chosen(c, c.est_beatsync_features, o)
  ELSE IF c.feat_type = "ann_beatsync" /\ c.ann_beatsync_features # None
  THEN Chosen(c, c.ann_beatsync_features, o)
  ELSE Outcome("FeatureTypeNotFound", c, o.f, None,
               o.read_out, o.loaded, o.computed, o.wrote)

\* Line 387: write_features ended with w after read_features raised e.
AfterWrite(w, e) ==
  IF w.out # "ok" THEN Outcome(w.out, w.c, w.f, None, e, TRUE, TRUE, w.wrote)
  ELSE ChooseFeatures(w.c, Outcome("ok", w.c, w.f, None, e, TRUE, TRUE, w.wrote))

\* A getter that lets the IOError of the source go on unless the sidecar was
\* absent or malformed.
AfterComputeIOErrorEscapes(k, e, f, stamp) ==
  IF k.out = "IOError" /\ e \in {"NoFeaturesFileError", "WrongFeaturesFormatError"}
  THEN Outcome("NoAudioFileError", k.c, f, None, e, FALSE, FALSE, FALSE)
  ELSE IF k.out # "ok"
  THEN Outcome(k.out, k.c, f, None, e, k.out # "IOError", k.out = "ValueError", FALSE)
  ELSE AfterWrite(write_features(k.c, f, stamp), e)

\* Lines 385-397: _compute_all_features ended with k after read_features
\* raised e.
AfterCompute(k, e, f, stamp) ==
  IF k.out = "IOError"
  THEN Outcome("NoAudioFileError", k.c, f, None, e, FALSE, FALSE, FALSE)
  ELSE IF k.out # "ok"
  THEN Outcome(k.out, k.c, f, None, e, TRUE, k.out # "NameError", FALSE)
  ELSE AfterWrite(write_features(k.c, f, stamp), e)

\* A getter that writes the sidecar again after a read_features that
\* succeeded.
AfterReadRewriting(r, f, a, m, stamp) ==
  IF r.out = "ok"
  THEN AfterWrite(write_features(r.c, f, stamp), "ok")
  ELSE IF r.out \in CaughtByFeatures
  THEN AfterCompute(compute_all_features(r.c, a, m), r.out, f, stamp)
  ELSE Outcome(r.out, r.c, f, None, r.out, FALSE, FALSE, FALSE)

\* Lines 381-384: read_features ended with r.
AfterRead(r, f, a, m, stamp) ==
  IF r.out = "ok"
  THEN ChooseFeatures(r.c, Outcome("ok", r.c, f, None, "ok", FALSE, FALSE, FALSE))
  ELSE IF r.out \in CaughtByFeatures
  THEN AfterCompute(compute_all_features(r.c, a, m), r.out, f, stamp)
  ELSE Outcome(r.out, r.c, f, None, r.out, FALSE, FALSE, FALSE)

\* The features getter on controller c, sidecar f, source a, the extractor
\* returning m if it runs.
features(c, f, a, m, stamp) ==
  IF c.features # None
  THEN ChooseFeatures(c, Outcome("ok", c, f, None, "skipped", FALSE, FALSE, FALSE))
  ELSE AfterRead(read_features(c, f), f, a, m, stamp)

\* librosa.core.frames_to_time(np.arange(N), sr, hop_length), milliseconds.
FramesToTime(n, sr, hop_length) == [i \in 1..n |-> (1000 * (i - 1) * hop_length) \div sr]

\* _compute_framesync_times
compute_framesync_times(c) ==
  [c EXCEPT !.framesync_times =
     Some(FramesToTime(Len(Val(c.framesync_features)), c.sr, c.hop_length))]

WithTimes(o, c, times) == [o EXCEPT !.c = c, !.ret = times]

FramesyncTimes(o, c) == WithTimes(o, c, c.framesync_times)

\* Lines 359-367: the time axis of the feature type, after the features
\* getter ended with o.
TimesOf(o) ==
  IF o.out # "ok" THEN o
  ELSE IF o.c.feat_type = "framesync"
  THEN FramesyncTimes(o, compute_framesync_times(o.c))
  ELSE IF o.c.feat_type = "est_beatsync" THEN WithTimes(o, o.c, o.c.est_beatsync_times)
  ELSE IF o.c.feat_type = "ann_beatsync" THEN WithTimes(o, o.c, o.c.ann_beatsync_times)
  ELSE WithTimes(o, o.c, None)

\* The frame_times getter: the features getter, then the time axis of the
\* feature type.
frame_times(c, f, a, m, stamp) == TimesOf(features(c, f, a, m, stamp))

----------------------------------------------------------------------------
(* The inputs: the piano-roll source, the configurations, the sidecar files *)

\* Rows of the longest piano-roll.
MaxTimestep == 4

\* Number of different matrices the extractor can return (its noise term).
NoiseLevels == 1

\* The piano-roll at file_struct.audio_file: pypianoroll.load raises an
\* IOError when it does not exist.
Source(exists, n) ==
  [exists |-> exists, tempo |-> 120000, beat_resolution |-> 2, num_timestep |-> n]

Audios ==
  {Source(TRUE, n) : n \in (MaxTimestep - 1)..MaxTimestep}
    \cup {Source(FALSE, MaxTimestep)}

\* What compute_features can return for n rows.
ExtractorOutputs(n) == {[i \in 1..n |-> 10 * v + i] : v \in 1..NoiseLevels}

\* The defaults of the configuration, and the arguments a caller can give
\* the constructor instead.
DefaultConfig ==
  [sr |-> 1, hop_length |-> 1, mode |-> "merge", norm |-> PyBool(TRUE),
   epsilon |-> PyInt(0), ref_power |-> "max"]

Configs ==
  {DefaultConfig,
   [DefaultConfig EXCEPT !.sr = 2],
   [DefaultConfig EXCEPT !.hop_length = 2],
   [DefaultConfig EXCEPT !.mode = "stack"],
   [DefaultConfig EXCEPT !.mode = "sum"],
   [DefaultConfig EXCEPT !.norm = PyStr("True")],
   [DefaultConfig EXCEPT !.ref_power = "min"]}

\* The feature ids a caller can ask select_features for.
FeatureIds == features_registry \cup {"chroma"}

\* The stored params of a block written with configuration cfg.
StoredParams(cfg) ==
  [mode |-> cfg.mode, norm |-> ParamString(cfg.norm),
   epsilon |-> ParamString(cfg.epsilon),
   ref_power |-> RefPowerFunctions[cfg.ref_power]]

\* A block found in a sidecar written earlier.
StoredBlock(params) ==
  [params |-> params, framesync |-> <<5, 6, 7, 8>>,
   est_beatsync |-> <<12, 14>>, ann_beatsync |-> <<13, 15>>]

Without(obj, keys) == [k \in (DOMAIN obj) \ keys |-> obj[k]]

\* The globals of a sidecar written earlier for source a, and the ways they
\* can differ from what the source gives now.
StoredGlobals(a) ==
  [dur |-> BeatTime(a.tempo, a.num_timestep), tempo |-> a.tempo,
   sample_rate |-> 1, hop_length |-> 1, audio_file |-> AudioFile]

GlobalsChoices(a) ==
  LET g == StoredGlobals(a) IN
  {g,
   [g EXCEPT !.dur = g.dur + 1, !.tempo = g.tempo + 60],
   [g EXCEPT !.dur = 2 * g.dur],
   [g EXCEPT !.tempo = 90000],
   [g EXCEPT !.sample_rate = 2],
   [g EXCEPT !.hop_length = 2],
   [g EXCEPT !.audio_file = [dir |-> "/old", base |-> "song.npz"]],
   [g EXCEPT !.audio_file = [dir |-> "/lpd", base |-> "other.npz"]],
   Without(g, {"hop_length"})}

\* The blocks a sidecar can hold for one feature id; None is no block.
GoodBlock == StoredBlock(StoredParams(DefaultConfig))

UsualBlocks ==
  {None, Some(GoodBlock),
   Some(StoredBlock(StoredParams([DefaultConfig EXCEPT !.mode = "stack"])))}

OddBlocks ==
  {Some(Without(GoodBlock, {"ann_beatsync"})),
   Some(Without(GoodBlock, {"framesync"})),
   Some(Without(GoodBlock, {"params"})),
   Some(StoredBlock(Without(StoredParams(DefaultConfig), {"norm"}))),
   Some(StoredBlock(Without(StoredParams([DefaultConfig EXCEPT !.mode = "stack"]),
                            {"norm"})))}

\* The record of a sidecar written earlier.
StoredRecord(g, cqt, mfcc) ==
  LET top == [metadata |-> [versions |-> "librosa msaf numpy", timestamp |-> 0],
              globals |-> g,
              est_beats |-> <<0, 1000>>, est_beatsync_times |-> <<0, 1000>>,
              ann_beats |-> <<0, 990>>, ann_beatsync_times |-> <<0, 990>>]
      o1 == IF cqt = None THEN top ELSE Put(top, "cqt", Val(cqt))
  IN IF mfcc = None THEN o1 ELSE Put(o1, "mfcc", Val(mfcc))

DroppedKeys ==
  {{"globals"}, {"est_beats"}, {"metadata"}, {"ann_beatsync_times"},
   {"ann_beats", "ann_beatsync_times"}}

Absent == [kind |-> "absent", obj |-> EmptyObj]

Garbage == [kind |-> "garbage", obj |-> EmptyObj]

Json(obj) == [kind |-> "json", obj |-> obj]

\* The sidecar files the item can have before the first request.
InitFiles(a) ==
  {Absent, Garbage}
    \cup {Json(StoredRecord(StoredGlobals(a), cqt, mfcc)) :
            cqt \in UsualBlocks, mfcc \in {None, Some(GoodBlock)}}
    \cup {Json(StoredRecord(g, cqt, Some(GoodBlock))) :
            g \in GlobalsChoices(a), cqt \in UsualBlocks \ {None}}
    \cup {Json(StoredRecord(StoredGlobals(a), cqt, Some(GoodBlock))) : cqt \in OddBlocks}
    \cup {Json(Without(StoredRecord(StoredGlobals(a), Some(GoodBlock), Some(GoodBlock)), d)) :
            d \in DroppedKeys}

----------------------------------------------------------------------------
(* The state machine *)

\* What the last call was and what it did; pre_file, pre_dur and pre_tempo
\* are the sidecar and the controller's duration and tempo when it started.
Call(op, o, c, f) ==
  [op |-> op, out |-> o.out, ret |-> o.ret, read_out |-> o.read_out,
   loaded |-> o.loaded, computed |-> o.computed, wrote |-> o.wrote,
   pre_file |-> f, pre_dur |-> c.dur, pre_tempo |-> c.tempo]

NoCall ==
  Call("none", Outcome("ok", NoController, Absent, None, "skipped", FALSE, FALSE, FALSE),
       NoController, Absent)

\* What the last call that wrote the sidecar stored, by which controller.
WrittenBy(c) ==
  [valid |-> TRUE, id |-> c.id, params |-> Fingerprint(c),
   sr |-> c.sr, hop_length |-> c.hop_length, dur |-> c.dur, tempo |-> c.tempo,
   framesync |-> c.framesync_features, est_beatsync |-> c.est_beatsync_features]

NotWritten ==
  [valid |-> FALSE, id |-> "none", params |-> EmptyObj,
   sr |-> 0, hop_length |-> 0, dur |-> None, tempo |-> None,
   framesync |-> None, est_beatsync |-> None]

\* The write of the sidecar in progress: pc is "idle" when there is none,
\* prior the file before it, record the out_json being dumped, k the number
\* of its top-level entries that have reached the disk, out how the call
\* will end.
NoWrite == [pc |-> "idle", prior |-> Absent, record |-> EmptyObj, k |-> 0, out |-> "ok"]

\* segment_song has not been called; the driver is not running.
NoSegmentation == [pc |-> "none"]

NoDriver == [pc |-> "none"]

\* No function of utils/dirs.py has been called.
NoLookup == [pc |-> "none"]

Init ==
  /\ audio \in Audios
  /\ file \in InitFiles(audio)
  /\ ctl = NoController
  /\ last = NoCall
  /\ written = NotWritten
  /\ nwrites = 0
  /\ wr = NoWrite
  /\ seg = NoSegmentation
  /\ drv = NoDriver
  /\ rd = NoLookup

\* The state a call leaves: o is its outcome on the controller before.
Step(op, o, before) ==
  /\ o.wrote => nwrites < MaxWrites
  /\ ctl' = o.c
  /\ file' = o.f
  /\ nwrites' = IF o.wrote THEN nwrites + 1 ELSE nwrites
  /\ last' = Call(op, o, before, file)
  /\ written' = IF o.wrote THEN WrittenBy(o.c) ELSE written
  /\ UNCHANGED <<audio, wr, seg, drv, rd>>

Constructed(r) == Outcome(r.out, r.c, file, None, "skipped", FALSE, FALSE, FALSE)

\* A caller obtains a controller from select_features, which gives the class
\* the defaults of the configuration; the caller has no controller when the
\* call raises.
SelectFeatures ==
  /\ \E features_id \in FeatureIds, annot_beats \in BOOLEAN, framesync \in BOOLEAN :
       Step("select_features",
            Constructed(select_features(features_id, annot_beats, framesync, DefaultConfig)),
            NoController)

\* A caller constructs a CQT controller with its own arguments.
Construct ==
  /\ \E cfg \in Configs \ {DefaultConfig} :
       Step("construct",
            Constructed(ClassInit("cqt", "framesync", cfg.sr, cfg.hop_length,
                                  cfg.mode, cfg.norm, cfg.epsilon, cfg.ref_power)),
            NoController)

ReadOutcome(r) == Outcome(r.out, r.c, file, None, r.out, FALSE, FALSE, FALSE)

\* A direct call of read_features.
ReadFeatures ==
  /\ ctl.alive
  /\ Step("read_features", ReadOutcome(read_features(ctl, file)), ctl)

ComputeOutcome(r) ==
  Outcome(r.out, r.c, file, None, "skipped", r.out # "IOError",
          r.out \in {"ok", "ValueError"}, FALSE)

\* A direct call of _compute_all_features.
ComputeAllFeatures ==
  /\ ctl.alive
  /\ \E m \in ExtractorOutputs(audio.num_timestep) :
       Step("compute_all_features", ComputeOutcome(compute_all_features(ctl, audio, m)), ctl)

WriteOutcome(w, read_out) == Outcome(w.out, w.c, w.f, None, read_out, FALSE, FALSE, w.wrote)

\* A direct call of write_features.
WriteFeatures ==
  /\ ctl.alive
  /\ Step("write_features",
          WriteOutcome(write_features(ctl, file, nwrites + 1), read_features(ctl, file).out),
          ctl)

\* The features getter.
Features ==
  /\ ctl.alive
  /\ \E m \in ExtractorOutputs(audio.num_timestep) :
       Step("features", features(ctl, file, audio, m, nwrites + 1), ctl)

\* The frame_times getter.
FrameTimes ==
  /\ ctl.alive
  /\ \E m \in ExtractorOutputs(audio.num_timestep) :
       Step("frame_times", frame_times(ctl, file, audio, m, nwrites + 1), ctl)

Next ==
  \/ SelectFeatures
  \/ Construct
  \/ ReadFeatures
  \/ ComputeAllFeatures
  \/ WriteFeatures
  \/ Features
  \/ FrameTimes

Spec == Init /\ [][Next]_vars

----------------------------------------------------------------------------
(* Vocabulary of the properties *)

ParamNameSet == {get_param_names[i] : i \in 1..Len(get_param_names)}

GlobalsKeys == {"dur", "tempo", "sample_rate", "hop_length", "audio_file"}

\* The calls that run write_features: the direct call and the getters.
WritingCalls == {"write_features", "features", "frame_times"}

\* The calls that go through the features getter.
GetterCalls == {"features", "frame_times"}

\* File f holds a record whose globals have their five entries.
HasGlobals(f) ==
  /\ f.kind = "json"
  /\ HasKey(f.obj, "globals")
  /\ GlobalsKeys \subseteq DOMAIN f.obj["globals"]

\* The globals of file f match a controller of sample rate sr, hop length
\* hop_length, duration dur and tempo tempo (None: not known yet), for the
\* item's audio file.
GlobalsMatch(f, sr, hop_length, dur, tempo) ==
  /\ HasGlobals(f)
  /\ dur # None => IsClose(Val(dur), f.obj["globals"]["dur"])
  /\ tempo # None => IsClose(Val(tempo), f.obj["globals"]["tempo"])
  /\ sr = f.obj["globals"]["sample_rate"]
  /\ hop_length = f.obj["globals"]["hop_length"]
  /\ Basename(AudioFile) = Basename(f.obj["globals"]["audio_file"])

\* File f holds a block for feature id with a stored string for each of the
\* parameters.
HasFullBlock(f, id) ==
  /\ f.kind = "json"
  /\ HasKey(f.obj, id)
  /\ HasKey(f.obj[id], "params")
  /\ DOMAIN f.obj[id]["params"] = ParamNameSet

\* The feature blocks of file f.
BlockIds(f) == IF f.kind = "json" THEN (DOMAIN f.obj) \cap features_registry ELSE {}

----------------------------------------------------------------------------
(* C1 *)

\* A read_features that follows a write of the same feature id by a
\* controller of the same globals and the same fingerprint.
ReadsBackWritten ==
  /\ last.op = "read_features"
  /\ written.valid
  /\ ctl.id = written.id
  /\ Fingerprint(ctl) = written.params
  /\ ctl.sr = written.sr
  /\ ctl.hop_length = written.hop_length
  /\ last.pre_dur \in {None, written.dur}
  /\ last.pre_tempo \in {None, written.tempo}

\* C1: once write_features has written feature id F, whatever the sidecar
\* held before, a read_features by a controller with the same globals and the
\* same fingerprint succeeds and yields the framesync and est_beatsync
\* matrices that were written.
C1_RoundTrip ==
  ReadsBackWritten =>
    /\ last.out = "ok"
    /\ ctl.framesync_features = written.framesync
    /\ ctl.est_beatsync_features = written.est_beatsync

----------------------------------------------------------------------------
(* C2 *)

\* The last call ran write_features for feature id B = ctl.id on a record of
\* matching globals that held a block of another feature id and either no
\* block for B or a block for B with a string for each parameter, not all
\* equal to the controller's.
AdditiveCase ==
  /\ last.op \in WritingCalls
  /\ last.wrote
  /\ GlobalsMatch(last.pre_file, ctl.sr, ctl.hop_length, ctl.dur, ctl.tempo)
  /\ BlockIds(last.pre_file) \ {ctl.id} # {}
  /\ \/ ~HasKey(last.pre_file.obj, ctl.id)
     \/ /\ HasFullBlock(last.pre_file, ctl.id)
        /\ last.pre_file.obj[ctl.id]["params"] # Fingerprint(ctl)

\* C2: in that case every other key of the record (the other blocks, globals,
\* metadata, the beat grids) is kept with its value and the file holds the new
\* block of B beside them.
C2_AdditiveWrite ==
  AdditiveCase =>
    /\ file.kind = "json"
    /\ DOMAIN file.obj = (DOMAIN last.pre_file.obj) \cup {ctl.id}
    /\ \A k \in (DOMAIN last.pre_file.obj) \ {ctl.id} : file.obj[k] = last.pre_file.obj[k]
    /\ Some(file.obj[ctl.id]) = CurrentBlock(ctl)

\* C2 happens: a block was added beside another one, replacing a block of
\* other parameters.
C2_Witness ==
  /\ AdditiveCase
  /\ HasKey(last.pre_file.obj, ctl.id)
  /\ file.obj[ctl.id] # last.pre_file.obj[ctl.id]

----------------------------------------------------------------------------
(* C3 *)

\* C3: a call that writes the sidecar for a controller whose globals match
\* the record keeps every block of another feature id, unchanged.
C3_BlocksNeverLost ==
  ( /\ last.op \in WritingCalls
    /\ last.wrote
    /\ GlobalsMatch(last.pre_file, ctl.sr, ctl.hop_length, ctl.dur, ctl.tempo) )
  => \A id \in BlockIds(last.pre_file) \ {ctl.id} :
       /\ file.kind = "json"
       /\ HasKey(file.obj, id)
       /\ file.obj[id] = last.pre_file.obj[id]

----------------------------------------------------------------------------
(* C4 *)

\* The keys a record holds besides its feature blocks.
RequiredKeys == {"metadata", "globals", "est_beats", "est_beatsync_times"}

AnnotatedKeys == {"ann_beats", "ann_beatsync_times"}

\* The sidecar lacks a key every record has.
LacksRequiredKeys(f) ==
  /\ f.kind = "json"
  /\ \/ ~(RequiredKeys \ {"metadata"} \subseteq DOMAIN f.obj)
     \/ ~HasGlobals(f)

\* The sidecar holds globals that do not match the controller's.
GlobalsMismatch(f, c) ==
  /\ HasGlobals(f)
  /\ ~GlobalsMatch(f, c.sr, c.hop_length, c.dur, c.tempo)

\* C4: when write_features runs on a sidecar that is absent, lacks required
\* keys or holds globals that do not match the controller's, the file written
\* holds metadata, globals, the estimated beat grids, possibly the annotated
\* ones, and the block of the current feature id, and nothing else.
C4_RebuildFromScratch ==
  ( /\ last.op \in WritingCalls
    /\ last.wrote
    /\ \/ last.pre_file.kind = "absent"
       \/ LacksRequiredKeys(last.pre_file)
       \/ GlobalsMismatch(last.pre_file, ctl) )
  => /\ file.kind = "json"
     /\ RequiredKeys \cup {ctl.id} \subseteq DOMAIN file.obj
     /\ DOMAIN file.obj \subseteq RequiredKeys \cup AnnotatedKeys \cup {ctl.id}
     /\ file.obj["metadata"]["timestamp"] = nwrites

----------------------------------------------------------------------------
(* C5 *)

\* The calls that start with read_features on the controller as it was.
ReadingCalls == {"read_features", "write_features", "features", "frame_times"}

\* The last call read a record of matching globals that holds a block for the
\* controller's feature id, with a string stored for each parameter and at
\* least one of them different from the controller's.
ChangedParameterCase ==
  /\ last.op \in ReadingCalls
  /\ last.read_out # "skipped"
  /\ GlobalsMatch(last.pre_file, ctl.sr, ctl.hop_length, last.pre_dur, last.pre_tempo)
  /\ HasFullBlock(last.pre_file, ctl.id)
  /\ last.pre_file.obj[ctl.id]["params"] # Fingerprint(ctl)

\* C5: with matching globals and a block for the feature id, a parameter of
\* the controller whose string (or function name) differs from the stored one
\* makes read_features raise FeatureParamsError.
C5_ChangedParameter == ChangedParameterCase => last.read_out = "FeatureParamsError"

\* C5 happens for a parameter that holds a function and is compared last.
C5_Witness ==
  /\ ChangedParameterCase
  /\ last.op = "read_features"
  /\ last.pre_file.obj[ctl.id]["params"]["mode"] = ParamString(ctl.params["mode"])
  /\ last.pre_file.obj[ctl.id]["params"]["ref_power"] # ParamString(ctl.params["ref_power"])

----------------------------------------------------------------------------
(* C6 *)

\* C6: a controller constructed with sample rate sr and hop length h fails
\* read_features with FeaturesNotFound on a record whose stored sample_rate
\* differs from sr, whose hop_length differs from h or whose audio file name
\* differs from the controller's.
C6_ConstructedGlobalsChecked ==
  ( /\ last.op = "read_features"
    /\ HasGlobals(last.pre_file)
    /\ \/ last.pre_file.obj["globals"]["sample_rate"] # ctl.arg_sr
       \/ last.pre_file.obj["globals"]["hop_length"] # ctl.arg_hop_length
       \/ Basename(last.pre_file.obj["globals"]["audio_file"]) # Basename(AudioFile) )
  => last.out = "FeaturesNotFound"

----------------------------------------------------------------------------
(* C7 *)

\* The duration and tempo the source gives now.
FreshDur == BeatTime(audio.tempo, audio.num_timestep)

FreshTempo == audio.tempo

\* C7: a features request that returns a matrix read from the sidecar read it
\* from a record whose duration and tempo are within the tolerance of the
\* values of the source.
C7_NoStaleCacheHit ==
  ( /\ last.op \in GetterCalls
    /\ last.read_out = "ok"
    /\ last.out = "ok"
    /\ audio.exists )
  => /\ IsClose(FreshDur, last.pre_file.obj["globals"]["dur"])
     /\ IsClose(FreshTempo, last.pre_file.obj["globals"]["tempo"])

----------------------------------------------------------------------------
(* C8 *)

\* The source exists and the controller's computation can run on it: the
\* piano-roll is a whole number of beats long and the class is not CQT in
\* 'stack' mode.
Computable ==
  /\ audio.exists
  /\ audio.num_timestep % audio.beat_resolution = 0
  /\ ~(ctl.id = "cqt" /\ ctl.params["mode"] = PyStr("stack"))

\* C8: with the source available, a features request whose read_features
\* fails, be the sidecar absent, unparseable, malformed or mismatched,
\* computes, writes the sidecar and reaches the choice of the matrix.
C8_ReadFailureRecomputes ==
  ( /\ last.op \in GetterCalls
    /\ Computable
    /\ last.read_out \notin {"ok", "skipped"} )
  => /\ last.computed
     /\ last.wrote
     /\ last.out \in {"ok", "FeatureTypeNotFound"}

----------------------------------------------------------------------------
(* C9 *)

\* The features getter found no usable block (globals mismatch, parameter
\* mismatch or no block of the feature id) and no source to compute from.
NoCacheNoSource ==
  /\ last.op \in GetterCalls
  /\ last.read_out \in {"FeaturesNotFound", "FeatureParamsError"}
  /\ ~audio.exists

\* C9: then the request ends with NoAudioFileError and the sidecar is left as
\* it was.
C9_NoAudioFileError ==
  NoCacheNoSource =>
    /\ last.out = "NoAudioFileError"
    /\ ~last.wrote
    /\ file = last.pre_file

\* C9 happens on a record of another parameterization.
C9_Witness ==
  /\ NoCacheNoSource
  /\ last.read_out = "FeatureParamsError"
  /\ last.out = "NoAudioFileError"
  /\ HasFullBlock(file, ctl.id)

----------------------------------------------------------------------------
(* C10 *)

\* The matrix and the time axis of feature type t in controller c.
MatrixOf(c, t) ==
  CASE t = "framesync" -> c.framesync_features
    [] t = "est_beatsync" -> c.est_beatsync_features
    [] OTHER -> c.ann_beatsync_features

TimesOfType(c, t) ==
  CASE t = "framesync" -> c.framesync_times
    [] t = "est_beatsync" -> c.est_beatsync_times
    [] OTHER -> c.ann_beatsync_times

\* C10: the features getter returns the matrix, and frame_times the time
\* axis, of the feature type the controller was requested with.
C10_RequestedSyncMode ==
  /\ (last.op = "features" /\ last.out = "ok")
       => last.ret = MatrixOf(ctl, ctl.arg_feat_type)
  /\ (last.op = "frame_times" /\ last.out = "ok")
       => last.ret = TimesOfType(ctl, ctl.arg_feat_type)

----------------------------------------------------------------------------
(* C11 *)

\* The features getter read a record that is valid for the controller and
\* holds no annotated beats.
ReadWithoutAnnotations ==
  /\ last.op = "features"
  /\ last.read_out = "ok"
  /\ ~HasKey(last.pre_file.obj, "ann_beats")

\* C11: on a valid record without ann_beats, a request in ann_beatsync mode
\* raises FeatureTypeNotFound and a request in framesync or est_beatsync mode
\* returns a matrix.
C11_ModesWithoutAnnotations ==
  ReadWithoutAnnotations =>
    /\ ctl.arg_feat_type = "ann_beatsync" => last.out = "FeatureTypeNotFound"
    /\ ctl.arg_feat_type \in {"framesync", "est_beatsync"} =>
         (last.out = "ok" /\ last.ret # None)

----------------------------------------------------------------------------
(* C12 *)

\* The ways a features request may end: "ok" is a matrix returned.
FeaturesOutcomes == {"ok", "NoAudioFileError", "FeatureTypeNotFound"}

\* C12: a features request ends with a matrix, with NoAudioFileError or with
\* FeatureTypeNotFound; no error of the read, compute or persist step reaches
\* the caller.  The source, when it exists, is one the computation can run on.
C12_OnlyFatalErrorsEscape ==
  ( /\ last.op \in GetterCalls
    /\ audio.exists => Computable )
  => last.out \in FeaturesOutcomes

----------------------------------------------------------------------------
(* The persist step of write_features, one file operation at a time *)

\* The order in which json.dump emits the top-level entries of a record.
KeyOrder ==
  <<"metadata", "globals", "est_beats", "est_beatsync_times", "ann_beats",
    "ann_beatsync_times", "cqt", "mfcc">>

EntriesOf(obj) == SelectSeq(KeyOrder, LAMBDA key : key \in DOMAIN obj)

\* The text on disk after the first k entries of obj were flushed: it is not
\* a JSON document (the closing brace is missing; the file is empty for
\* k = 0), and json.load raises a ValueError on it.
Partial(obj, k) ==
  [kind |-> "garbage",
   obj |-> [key \in {EntriesOf(obj)[i] : i \in 1..k} |-> obj[key]]]

\* Lines 257-312: read_features, the handlers and the block of the current
\* features; nothing has touched the file yet.
BeginWrite(w) ==
  IF w.wrote
  THEN /\ wr' = [pc |-> "ready", prior |-> file, record |-> w.f.obj, k |-> 0, out |-> w.out]
       /\ ctl' = w.c
       /\ UNCHANGED <<seg, drv, file, audio, last, written, nwrites, rd>>
  ELSE /\ ctl' = w.c
       /\ last' = Call("write_features", WriteOutcome(w, "skipped"), ctl, file)
       /\ UNCHANGED <<seg, drv, file, audio, written, nwrites, wr, rd>>

WriteBegin ==
  /\ wr.pc = "idle"
  /\ ctl.alive
  /\ nwrites < MaxWrites
  /\ BeginWrite(write_features(ctl, file, nwrites + 1))

\* Line 315: open(features_file, "w") truncates the file.
WriteOpen ==
  /\ wr.pc = "ready"
  /\ wr' = [wr EXCEPT !.pc = "dumping"]
  /\ file' = Partial(wr.record, 0)
  /\ UNCHANGED <<seg, drv, audio, ctl, last, written, nwrites, rd>>

\* Line 316: json.dump writes the record piece by piece; one more entry
\* reaches the disk.
WriteChunk ==
  /\ wr.pc = "dumping"
  /\ wr.k < Len(EntriesOf(wr.record))
  /\ wr' = [wr EXCEPT !.k = wr.k + 1]
  /\ file' = Partial(wr.record, wr.k + 1)
  /\ UNCHANGED <<seg, drv, audio, ctl, last, written, nwrites, rd>>

\* Lines 315-316: the dump is complete and the with block closes the file.
WriteClose ==
  /\ wr.pc = "dumping"
  /\ wr.k = Len(EntriesOf(wr.record))
  /\ file' = Json(wr.record)
  /\ wr' = NoWrite
  /\ nwrites' = nwrites + 1
  /\ written' = WrittenBy(ctl)
  /\ last' = Call("write_features",
                  Outcome(wr.out, ctl, Json(wr.record), None, "skipped", FALSE, FALSE, TRUE),
                  ctl, wr.prior)
  /\ UNCHANGED <<seg, drv, audio, ctl, rd>>

\* The process stops while write_features runs; the file stays as it is.
Crash ==
  /\ wr.pc \in {"ready", "dumping"}
  /\ wr' = [wr EXCEPT !.pc = "crashed"]
  /\ ctl' = NoController
  /\ UNCHANGED <<seg, drv, file, audio, last, written, nwrites, rd>>

\* A new process starts on the files the stopped one left.
Restart ==
  /\ wr.pc = "crashed"
  /\ wr' = NoWrite
  /\ last' = NoCall
  /\ UNCHANGED <<seg, drv, file, audio, ctl, written, nwrites, rd>>

\* The calls that prepare a write, while no write is in progress.
PrepareWrite ==
  /\ wr.pc = "idle"
  /\ \/ SelectFeatures
     \/ ComputeAllFeatures
     \/ ReadFeatures

NextPersist ==
  \/ PrepareWrite
  \/ WriteBegin
  \/ WriteOpen
  \/ WriteChunk
  \/ WriteClose
  \/ Crash
  \/ Restart

SpecPersist == Init /\ [][NextPersist]_vars

----------------------------------------------------------------------------
(* C13 *)

\* C13: whenever the process stops during write_features, the sidecar on disk
\* is the complete file that was there before the call or the complete new
\* record.
C13_CrashSafePersist ==
  wr.pc = "crashed" => file \in {wr.prior, Json(wr.record)}

----------------------------------------------------------------------------
(* segment_song of src/features/msaf_segmentation.py *)

\* Boundaries are kept in milliseconds, raw ticks (boundary * ticks per
\* second) in thousandths of a tick; quantized ticks are whole ticks.
MIN_SEGMENT_LEN == 3

MsPerSecond == 1000

\* The divisor of tempo * beat_resolution // 60 for a tempo in thousandths of
\* a beat per minute.
SecondsPerMinuteMilli == 60000

\* Lines 41-44: the loop of the merge pass from index i on, new_boundaries
\* and new_labels being the lists built so far.
RECURSIVE MergeFromLastKept(_, _, _, _, _)
MergeFromLastKept(boundaries, labels, i, new_boundaries, new_labels) ==
  IF i > Len(boundaries) THEN [boundaries |-> new_boundaries, labels |-> new_labels]
  ELSE IF boundaries[i] - new_boundaries[Len(new_boundaries)] > MIN_SEGMENT_LEN * MsPerSecond
  THEN MergeFromLastKept(boundaries, labels, i + 1,
                         Append(new_boundaries, boundaries[i]), Append(new_labels, labels[i]))
  ELSE MergeFromLastKept(boundaries, labels, i + 1, new_boundaries, new_labels)

\* A merge loop that also keeps a boundary exactly the minimum after the raw
\* boundary before it.
RECURSIVE MergeFromInclusive(_, _, _, _, _)
MergeFromInclusive(boundaries, labels, i, new_boundaries, new_labels) ==
  IF i > Len(boundaries) THEN [boundaries |-> new_boundaries, labels |-> new_labels]
  ELSE IF boundaries[i] - boundaries[i - 1] >= MIN_SEGMENT_LEN * MsPerSecond
  THEN MergeFromInclusive(boundaries, labels, i + 1,
                          Append(new_boundaries, boundaries[i]), Append(new_labels, labels[i]))
  ELSE MergeFromInclusive(boundaries, labels, i + 1, new_boundaries, new_labels)

RECURSIVE MergeFrom(_, _, _, _, _)
MergeFrom(boundaries, labels, i, new_boundaries, new_labels) ==
  IF i > Len(boundaries) THEN [boundaries |-> new_boundaries, labels |-> new_labels]
  ELSE IF boundaries[i] - boundaries[i - 1] > MIN_SEGMENT_LEN * MsPerSecond
  THEN MergeFrom(boundaries, labels, i + 1,
                 Append(new_boundaries, boundaries[i]), Append(new_labels, labels[i]))
  ELSE MergeFrom(boundaries, labels, i + 1, new_boundaries, new_labels)

\* Lines 38-47: merge short segments.
MergeShortSegments(boundaries, labels) ==
  MergeFrom(boundaries, labels, 2, <<boundaries[1]>>, <<labels[1]>>)

\* Line 54: ticks_per_second = (tempo * beat_resolution) // 60
TicksPerSecond(tempo, beat_resolution) == (tempo * beat_resolution) \div SecondsPerMinuteMilli

\* A grid choice whose downbeat grid is four bars wide.
MultipleWithWideDownbeat(nearest, beat_resolution) ==
  IF nearest = "beat" THEN Some(beat_resolution)
  ELSE IF nearest = "downbeat" THEN Some(beat_resolution * 16)
  ELSE None

\* Lines 57-62: the grid of get_nearest, None for the ValueError.
Multiple(nearest, beat_resolution) ==
  IF nearest = "beat" THEN Some(beat_resolution)
  ELSE IF nearest = "downbeat" THEN Some(beat_resolution * 4)
  ELSE None

\* Lines 64-70: factor = num // multiple, remainder = num % multiple, the
\* threshold multiple // 2.
Nearest(num, multiple) ==
  IF num % (multiple * MsPerSecond) < (multiple \div 2) * MsPerSecond
  THEN multiple * (num \div (multiple * MsPerSecond))
  ELSE multiple * ((num \div (multiple * MsPerSecond)) + 1)

NearestOn(num, multiple) == IF multiple = None THEN None ELSE Some(Nearest(num, Val(multiple)))

\* get_nearest(num, nearest): the tick, None for the ValueError.
get_nearest(num, nearest, beat_resolution) ==
  NearestOn(num, Multiple(nearest, beat_resolution))

\* Line 72: prev_l is set once and never assigned in the loop.
prev_l == -1

\* Lines 74-78: the tick of boundary b with label l.
TickOf(b, l, ticks_per_second, beat_resolution) ==
  IF l # prev_l
  THEN Val(get_nearest(b * ticks_per_second, "downbeat", beat_resolution))
  ELSE Val(get_nearest(b * ticks_per_second, "beat", beat_resolution))

tick_boundaries(boundaries, labels, ticks_per_second, beat_resolution) ==
  [j \in 1..Len(boundaries) |->
     TickOf(boundaries[j], labels[j], ticks_per_second, beat_resolution)]

\* Line 80: tb / ticks_per_second in milliseconds; the division of numpy
\* floats by zero gives nan or inf, None here.
second_boundaries(ticks, ticks_per_second) ==
  [j \in 1..Len(ticks) |->
     IF ticks_per_second = 0 THEN None
     ELSE Some((ticks[j] * MsPerSecond) \div ticks_per_second)]

\* string.ascii_uppercase
ascii_uppercase ==
  <<"A", "B", "C", "D", "E", "F", "G", "H", "I", "J", "K", "L", "M",
    "N", "O", "P", "Q", "R", "S", "T", "U", "V", "W", "X", "Y", "Z">>

\* A labeling loop that gives every segment the next letter.
RECURSIVE LettersByPosition(_, _, _, _)
LettersByPosition(labels, i, label_map, letter_labels) ==
  IF i > Len(labels) THEN Some(letter_labels)
  ELSE IF i > Len(ascii_uppercase) THEN None
  ELSE LettersByPosition(labels, i + 1, label_map, Append(letter_labels, ascii_uppercase[i]))

\* Lines 83-88: the loop of the labeling pass from index i on; None for the
\* IndexError of string.ascii_uppercase[26].
RECURSIVE LettersFrom(_, _, _, _)
LettersFrom(labels, i, label_map, letter_labels) ==
  IF i > Len(labels) THEN Some(letter_labels)
  ELSE IF labels[i] \in DOMAIN label_map
  THEN LettersFrom(labels, i + 1, label_map, Append(letter_labels, label_map[labels[i]]))
  ELSE IF Cardinality(DOMAIN label_map) >= Len(ascii_uppercase) THEN None
  ELSE LettersFrom(labels, i + 1,
                   Put(label_map, labels[i], ascii_uppercase[Cardinality(DOMAIN label_map) + 1]),
                   Append(letter_labels, ascii_uppercase[Cardinality(DOMAIN label_map) + 1]))

letter_labels(labels) == LettersFrom(labels, 1, EmptyObj, <<>>)

\* What a call of segment_song leaves: the exception or "ok", the lists of
\* the merge pass and the three lists returned.
Segmented(out, merged, ticks, seconds, letters) ==
  [out |-> out, new_boundaries |-> merged.boundaries, new_labels |-> merged.labels,
   tick_boundaries |-> ticks, second_boundaries |-> seconds, letter_labels |-> letters]

NothingMerged == [boundaries |-> <<>>, labels |-> <<>>]

\* Lines 82-90.
Labelled(merged, ticks, seconds, letters) ==
  IF letters = None THEN Segmented("IndexError", merged, ticks, seconds, <<>>)
  ELSE Segmented("ok", merged, ticks, seconds, Val(letters))

\* Lines 72-90.
Quantized(merged, ticks, ticks_per_second) ==
  Labelled(merged, ticks, second_boundaries(ticks, ticks_per_second),
           letter_labels(merged.labels))

\* Lines 49-90: the piano-roll of the item is loaded after the merge pass.
AfterMerge(merged, src) ==
  IF ~src.exists THEN Segmented("IOError", merged, <<>>, <<>>, <<>>)
  ELSE Quantized(merged,
                 tick_boundaries(merged.boundaries, merged.labels,
                                 TicksPerSecond(src.tempo, src.beat_resolution),
                                 src.beat_resolution),
                 TicksPerSecond(src.tempo, src.beat_resolution))

\* segment_song for an item whose oracle (msaf.process) raises or returns
\* (boundaries, labels) and whose piano-roll is src.
segment_song(oracle, src) ==
  IF oracle.raises THEN Segmented("OracleError", NothingMerged, <<>>, <<>>, <<>>)
  ELSE IF oracle.boundaries = <<>>
  THEN Segmented("IndexError", NothingMerged, <<>>, <<>>, <<>>)
  ELSE AfterMerge(MergeShortSegments(oracle.boundaries, oracle.labels), src)

----------------------------------------------------------------------------
(* The inputs of segment_song and its specification *)

\* Length of the longest boundary list of the oracle.
MaxBoundaries == 3

\* The largest raw tick get_nearest is applied to on its own.
MaxTick == 16

\* The piano-roll of an item: Multitrack(path) raises when it is missing.
SegSource(exists, tempo, beat_resolution) ==
  [exists |-> exists, tempo |-> tempo, beat_resolution |-> beat_resolution]

SegSources ==
  {SegSource(TRUE, 120000, 2), SegSource(TRUE, 90000, 2), SegSource(TRUE, 60000, 3),
   SegSource(TRUE, 30000, 1), SegSource(TRUE, 15000, 4), SegSource(FALSE, 120000, 2)}

\* The distances of consecutive raw boundaries and the first boundary,
\* milliseconds.
Gaps == {1000, 3000, 3500}

FirstBoundaries == {0, 1500}

\* The raw labels of the oracle.
RawLabels == {-1, 0, 1}

\* The strictly increasing boundary lists of length n.
RECURSIVE BoundaryLists(_)
BoundaryLists(n) ==
  IF n = 0 THEN {<<>>}
  ELSE IF n = 1 THEN {<<b>> : b \in FirstBoundaries}
  ELSE {Append(bs, bs[Len(bs)] + g) : bs \in BoundaryLists(n - 1), g \in Gaps}

Returns(boundaries, labels) == [raises |-> FALSE, boundaries |-> boundaries, labels |-> labels]

OracleRaises == [raises |-> TRUE, boundaries |-> <<>>, labels |-> <<>>]

\* A song with one section more than there are letters, each section longer
\* than the minimum and of a label of its own.
LongSong ==
  Returns([j \in 1..(Len(ascii_uppercase) + 1) |->
             (j - 1) * (MIN_SEGMENT_LEN + 1) * MsPerSecond],
          [j \in 1..(Len(ascii_uppercase) + 1) |-> j])

\* What msaf.process can give: an exception, lists of equal length up to
\* MaxBoundaries, two longer songs with sections that come back and the
\* long song.
OracleOutputs ==
  {OracleRaises, LongSong,
   Returns(<<0, 1000, 5000, 6000, 12000>>, <<0, 1, 0, 2, 1>>),
   Returns(<<500, 4500, 9000, 14000, 20000>>, <<0, 1, 0, 2, 1>>)}
    \cup {Returns(bs, ls) : bs \in BoundaryLists(0), ls \in {<<>>}}
    \cup UNION {{Returns(bs, ls) : bs \in BoundaryLists(n), ls \in [1..n -> RawLabels]} :
                  n \in 1..MaxBoundaries}

\* A call of segment_song is pending on oracle output and source.
Pending(oracle, src) == [pc |-> "pending", oracle |-> oracle, src |-> src]

InitSegment ==
  /\ seg \in {Pending(oracle, src) : oracle \in OracleOutputs, src \in SegSources}
  /\ audio = Source(FALSE, MaxTimestep)
  /\ file = Absent
  /\ ctl = NoController
  /\ last = NoCall
  /\ written = NotWritten
  /\ nwrites = 0
  /\ wr = NoWrite
  /\ drv = NoDriver
  /\ rd = NoLookup

SegmentDone(oracle, src, r) == [pc |-> "done", oracle |-> oracle, src |-> src, r |-> r]

\* segment_song(msd_id)
SegmentSong ==
  /\ seg.pc = "pending"
  /\ seg' = SegmentDone(seg.oracle, seg.src, segment_song(seg.oracle, seg.src))
  /\ UNCHANGED <<file, audio, ctl, last, written, nwrites, wr, drv, rd>>

NearestDone(num, nearest, src, ndb) ==
  [pc |-> "nearest", num |-> num, nearest |-> nearest, src |-> src, ndb |-> ndb]

\* get_nearest(num, nearest) alone, on a raw tick num (thousandths) of the
\* item's grid.
GetNearest ==
  /\ seg.pc = "pending"
  /\ seg.src.exists
  /\ \E half \in 0..(2 * MaxTick), nearest \in {"beat", "downbeat", "bar"} :
       seg' = NearestDone(half * (MsPerSecond \div 2), nearest, seg.src,
                          get_nearest(half * (MsPerSecond \div 2), nearest,
                                      seg.src.beat_resolution))
  /\ UNCHANGED <<file, audio, ctl, last, written, nwrites, wr, drv, rd>>

NextSegment ==
  \/ SegmentSong
  \/ GetNearest

SpecSegment == InitSegment /\ [][NextSegment]_vars

----------------------------------------------------------------------------
(* C14 *)

\* segment_song went through its merge pass.
Merged == seg.pc = "done" /\ seg.oracle.boundaries # <<>> /\ ~seg.oracle.raises

\* The indices the merge pass is to keep: the first, and each one more than
\* the minimum away from the raw boundary before it.
KeptIndices(boundaries) ==
  {i \in 1..Len(boundaries) :
     i = 1 \/ boundaries[i] - boundaries[i - 1] > MIN_SEGMENT_LEN * MsPerSecond}

\* The j-th smallest element of a set of indices.
Nth(indices, j) == CHOOSE i \in indices : Cardinality({x \in indices : x < i}) = j - 1

\* C14: the merge pass keeps boundary 0 and every boundary i >= 1 whose
\* distance to raw boundary i-1 exceeds the minimum (a distance equal to it
\* is dropped), each with its own raw label, in the original order.
C14_MergePass ==
  Merged =>
    /\ Len(seg.r.new_boundaries) = Cardinality(KeptIndices(seg.oracle.boundaries))
    /\ Len(seg.r.new_labels) = Len(seg.r.new_boundaries)
    /\ \A j \in 1..Len(seg.r.new_boundaries) :
         /\ seg.r.new_boundaries[j] =
              seg.oracle.boundaries[Nth(KeptIndices(seg.oracle.boundaries), j)]
         /\ seg.r.new_labels[j] =
              seg.oracle.labels[Nth(KeptIndices(seg.oracle.boundaries), j)]

\* C14 happens on [0, 1, 5, 6, 12]: [0, 5, 12] is kept.
C14_Example ==
  /\ Merged
  /\ seg.oracle.boundaries = <<0, 1000, 5000, 6000, 12000>>
  /\ seg.r.new_boundaries = <<0, 5000, 12000>>
  /\ seg.r.new_labels = <<0, 0, 1>>

\* C14 happens with a gap equal to the minimum: the boundary is dropped
\* although it is more than the minimum away from the last kept one.
C14_Witness ==
  /\ Merged
  /\ seg.oracle.boundaries = <<0, 3000, 4000>>
  /\ seg.r.new_boundaries = <<0>>

----------------------------------------------------------------------------
(* C15 *)

\* segment_song went through its quantization pass.
QuantizedDone == seg.pc = "done" /\ seg.r.out = "ok"

\* The raw tick of kept boundary j, thousandths of a tick.
RawTick(j) ==
  seg.r.new_boundaries[j] * TicksPerSecond(seg.src.tempo, seg.src.beat_resolution)

\* C15: a kept boundary after the first whose raw label differs from the
\* label of the kept boundary before it gets a multiple of 4 * beat_resolution;
\* one whose raw label equals it gets the nearest multiple of beat_resolution.
\* The items are those with an even beat_resolution, where get_nearest rounds
\* to the nearest multiple on either grid.
C15_GridSelection ==
  (QuantizedDone /\ seg.src.beat_resolution % 2 = 0) =>
    \A j \in 2..Len(seg.r.new_boundaries) :
      IF seg.r.new_labels[j] # seg.r.new_labels[j - 1]
      THEN seg.r.tick_boundaries[j] % (4 * seg.src.beat_resolution) = 0
      ELSE /\ seg.r.tick_boundaries[j] % seg.src.beat_resolution = 0
           /\ 2 * Abs(seg.r.tick_boundaries[j] * MsPerSecond - RawTick(j))
                <= seg.src.beat_resolution * MsPerSecond

----------------------------------------------------------------------------
(* C16 *)

\* get_nearest returned for raw tick seg.num on the grid of step GridStep.
NearestReturned == seg.pc = "nearest" /\ seg.ndb # None

GridStep == Val(Multiple(seg.nearest, seg.src.beat_resolution))

\* C16: the result of get_nearest is a multiple of the grid step m; it is
\* m * (num div m) when num mod m < m / 2 and m * (num div m + 1) otherwise,
\* a remainder of exactly m / 2 rounding up, and it is never farther than
\* m / 2 from num.
C16_NearestRounding ==
  NearestReturned =>
    /\ Val(seg.ndb) % GridStep = 0
    /\ 2 * (seg.num % (GridStep * MsPerSecond)) < GridStep * MsPerSecond
         => Val(seg.ndb) = GridStep * (seg.num \div (GridStep * MsPerSecond))
    /\ 2 * (seg.num % (GridStep * MsPerSecond)) >= GridStep * MsPerSecond
         => Val(seg.ndb) = GridStep * ((seg.num \div (GridStep * MsPerSecond)) + 1)
    /\ 2 * Abs(Val(seg.ndb) * MsPerSecond - seg.num) <= GridStep * MsPerSecond

----------------------------------------------------------------------------
(* C17 *)

\* The position of a letter in the alphabet.
LetterIndex(letter) == CHOOSE n \in 1..Len(ascii_uppercase) : ascii_uppercase[n] = letter

\* The number of distinct raw labels among the first j kept boundaries.
DistinctUpTo(labels, j) == Cardinality({labels[x] : x \in 1..j})

\* C17: when segment_song returns, segment j has the letter of the rank of
\* its raw label in order of first appearance: the first segment has 'A', a
\* raw label seen before has the letter it got then, a new raw label has the
\* next unused letter; equal letters mean equal raw labels.
C17_LabelingPass ==
  QuantizedDone =>
    /\ Len(seg.r.letter_labels) = Len(seg.r.new_labels)
    /\ seg.r.letter_labels[1] = "A"
    /\ \A i, j \in 1..Len(seg.r.new_labels) :
         (seg.r.letter_labels[i] = seg.r.letter_labels[j])
           <=> (seg.r.new_labels[i] = seg.r.new_labels[j])
    /\ \A j \in 1..Len(seg.r.new_labels) :
         LetterIndex(seg.r.letter_labels[j]) <= DistinctUpTo(seg.r.new_labels, j)
    /\ \A j \in 2..Len(seg.r.new_labels) :
         seg.r.new_labels[j] \notin {seg.r.new_labels[x] : x \in 1..(j - 1)}
           => LetterIndex(seg.r.letter_labels[j]) = DistinctUpTo(seg.r.new_labels, j)

\* C17 happens on raw labels [x, y, x, z, y]: the letters are [A, B, A, C, B].
C17_Witness ==
  /\ QuantizedDone
  /\ seg.r.new_labels = <<0, 1, 0, 2, 1>>
  /\ seg.r.letter_labels = <<"A", "B", "A", "C", "B">>

----------------------------------------------------------------------------
(* C18 *)

\* C18: when the oracle returns empty boundary and label lists, segment_song
\* ends with the NoBoundariesFound error.
C18_NoBoundariesFound ==
  ( /\ seg.pc = "done"
    /\ ~seg.oracle.raises
    /\ seg.oracle.boundaries = <<>> )
  => seg.r.out = "NoBoundariesFound"

----------------------------------------------------------------------------
(* The driver loop of src/features/msaf_segmentation.py *)

\* Number of ids in synth_id_dict.
NItems == 3

\* Number of times the script is run over the same ids.
MaxRuns == 2

Items == 1..NItems

\* What an item can be: a song that segments, a song the oracle fails on, a
\* song the oracle finds no boundary in, a song whose piano-roll is missing.
ItemKinds ==
  {[oracle |-> Returns(<<0, 3500, 7000>>, <<0, 1, 0>>), src |-> SegSource(TRUE, 120000, 2)],
   [oracle |-> OracleRaises, src |-> SegSource(TRUE, 120000, 2)],
   [oracle |-> Returns(<<>>, <<>>), src |-> SegSource(TRUE, 120000, 2)],
   [oracle |-> Returns(<<0, 3500, 7000>>, <<0, 1, 0>>), src |-> SegSource(FALSE, 120000, 2)]}

\* Lines 103-104: the list written to the segmentation file.
SegmentationObj(r) ==
  [j \in 1..Len(r.tick_boundaries) |->
     [seconds |-> r.second_boundaries[j], ticks |-> r.tick_boundaries[j],
      label |-> r.letter_labels[j]]]

\* A segmentation file an earlier run left.
EarlierFile == Some(<<[seconds |-> Some(0), ticks |-> 0, label |-> "A"]>>)

\* What an earlier run can have left for an item: nothing, the directory with
\* the file, the directory alone.
OutputStates ==
  {[dir |-> FALSE, file |-> None], [dir |-> TRUE, file |-> EarlierFile],
   [dir |-> TRUE, file |-> None]}

\* The driver about to look at item i: out[k] is the output directory and
\* file of item k, out0 what they were when the run started, calls[k] the
\* number of calls of segment_song for k, visited the items the loop reached,
\* failed the items segment_song raised on; run counts the runs of the
\* script and start is what the outputs were before the first of them.
Running(items, out) ==
  [pc |-> "running", i |-> 1, items |-> items, out |-> out, out0 |-> out,
   calls |-> [k \in Items |-> 0], visited |-> {}, failed |-> {}, error |-> "ok",
   run |-> 1, start |-> out]

InitDriver ==
  /\ drv \in {Running(items, out) : items \in [Items -> ItemKinds], out \in [Items -> OutputStates]}
  /\ audio = Source(FALSE, MaxTimestep)
  /\ file = Absent
  /\ ctl = NoController
  /\ last = NoCall
  /\ written = NotWritten
  /\ nwrites = 0
  /\ wr = NoWrite
  /\ seg = NoSegmentation
  /\ rd = NoLookup

\* The loop goes to the next id, or ends after the last one.
Advance(d) ==
  [d EXCEPT !.i = d.i + 1,
            !.visited = d.visited \cup {d.i},
            !.pc = IF d.i + 1 > NItems THEN "done" ELSE "running"]

\* Lines 96-100: the output directory of the item exists: continue.
DriverSkip ==
  /\ drv.pc = "running"
  /\ drv.out[drv.i].dir
  /\ drv' = Advance(drv)
  /\ UNCHANGED <<file, audio, ctl, last, written, nwrites, wr, seg, rd>>

\* A driver that goes on after segment_song without writing the file.
ProcessedWithoutFile(d, r) ==
  IF r.out # "ok"
  THEN [d EXCEPT !.pc = "aborted", !.error = r.out,
                 !.visited = d.visited \cup {d.i}, !.failed = d.failed \cup {d.i}]
  ELSE Advance(d)

\* Lines 102-107 after os.makedirs: segment_song ended with r.  An exception
\* is caught nowhere and ends the script.
Processed(d, r) ==
  IF r.out # "ok"
  THEN [d EXCEPT !.pc = "aborted", !.error = r.out,
                 !.visited = d.visited \cup {d.i}, !.failed = d.failed \cup {d.i}]
  ELSE Advance([d EXCEPT !.out[d.i].file = Some(SegmentationObj(r))])

\* Lines 96-107: the output directory does not exist: os.makedirs, then
\* segment_song, then the file.
MadeDir(d) ==
  [d EXCEPT !.out[d.i].dir = TRUE, !.calls[d.i] = d.calls[d.i] + 1]

DriverProcess ==
  /\ drv.pc = "running"
  /\ ~drv.out[drv.i].dir
  /\ drv' = Processed(MadeDir(drv),
                      segment_song(drv.items[drv.i].oracle, drv.items[drv.i].src))
  /\ UNCHANGED <<file, audio, ctl, last, written, nwrites, wr, seg, rd>>

\* The script is run again over the same ids, on what the run before left,
\* whether that run reached the end of the list or was ended by an exception.
DriverRerun ==
  /\ drv.pc \in {"done", "aborted"}
  /\ drv.run < MaxRuns
  /\ drv' = [Running(drv.items, drv.out) EXCEPT !.run = drv.run + 1, !.start = drv.start]
  /\ UNCHANGED <<file, audio, ctl, last, written, nwrites, wr, seg, rd>>

NextDriver ==
  \/ DriverSkip
  \/ DriverProcess
  \/ DriverRerun

SpecDriver == InitDriver /\ [][NextDriver]_vars

----------------------------------------------------------------------------
(* C19 *)

\* The run of the driver is over.
RunOver == drv.pc \in {"done", "aborted"}

\* C19: a failure on one item does not keep the driver from the later ones:
\* when the run is over, every item after a failed one has been reached.
C19_BatchProgress ==
  RunOver => \A k \in drv.failed : \A j \in Items : j > k => j \in drv.visited

----------------------------------------------------------------------------
(* C20 *)

\* Item k was skipped: its output directory existed when the run started, no
\* call of segment_song was made for it and its directory and file are as
\* they were.
Skipped(k) == drv.calls[k] = 0 /\ drv.out[k] = drv.out0[k]

\* What segment_song gives for item k.
ResultOf(k) == segment_song(drv.items[k].oracle, drv.items[k].src)

\* C20 as stated: an item the driver has reached is skipped without a call
\* of segment_song and without a change to its files if its output directory
\* existed; otherwise its directory exists, segment_song was called once and
\* its segmentation file is written.
C20_SkipRule ==
  drv.pc # "none" =>
    \A k \in drv.visited :
      IF drv.out0[k].dir THEN Skipped(k)
      ELSE /\ drv.out[k].dir
           /\ drv.calls[k] = 1
           /\ drv.out[k].file # None

\* C20, amended: an item the driver has reached is skipped without a call of
\* segment_song and without a change to its files if its output directory
\* existed; otherwise its directory exists and segment_song was called once,
\* and its segmentation file holds the result if segment_song returned and
\* does not exist if it raised.  An item not reached is untouched.
C20_SkipRuleOnReturn ==
  drv.pc # "none" =>
    /\ \A k \in drv.visited :
         IF drv.out0[k].dir THEN Skipped(k)
         ELSE /\ drv.out[k].dir
              /\ drv.calls[k] = 1
              /\ k \notin drv.failed => drv.out[k].file = Some(SegmentationObj(ResultOf(k)))
              /\ k \in drv.failed => drv.out[k].file = None
    /\ \A k \in Items \ drv.visited : Skipped(k)

\* C20 happens: the run skipped an item that had a file, skipped one that had
\* only its directory, and wrote the file of a third.
C20_Witness ==
  /\ drv.pc = "done"
  /\ \E k \in drv.visited : drv.out0[k].dir /\ drv.out0[k].file # None /\ Skipped(k)
  /\ \E k \in drv.visited : drv.out0[k].dir /\ drv.out0[k].file = None /\ Skipped(k)
  /\ \E k \in drv.visited :
       ~drv.out0[k].dir /\ drv.calls[k] = 1 /\ drv.out[k].file # None

----------------------------------------------------------------------------
(* C21 *)

\* The sum of the r consecutive rows of m that start at row first.
RECURSIVE ConsecutiveSum(_, _, _)
ConsecutiveSum(m, first, r) ==
  IF r = 0 THEN 0 ELSE m[first + r - 1] + ConsecutiveSum(m, first, r - 1)

\* _compute_all_features has just returned on a piano-roll that is a whole
\* number of beats long.
BeatsAggregated ==
  /\ last.op = "compute_all_features"
  /\ last.out = "ok"
  /\ audio.num_timestep % audio.beat_resolution = 0

\* C21: after a computation on N frames, N a multiple of the beat
\* resolution r, row j of the beat-synchronous matrix is the sum of the r
\* consecutive frame rows j*r .. j*r + r - 1, for every beat j.
C21_BeatAggregation ==
  BeatsAggregated =>
    LET m == Val(ctl.framesync_features)
        b == Val(ctl.est_beatsync_features)
        r == audio.beat_resolution
    IN /\ Len(b) = Len(m) \div r
       /\ \A j \in 1..Len(b) : b[j] = ConsecutiveSum(m, (j - 1) * r + 1, r)

----------------------------------------------------------------------------
(* C22 *)

\* C22: the first kept boundary is quantized to the downbeat grid, a
\* multiple of 4 * beat_resolution, whatever its raw label is, the label -1
\* included.  The items are those with an even beat_resolution, where
\* get_nearest rounds to the nearest multiple on either grid.
C22_FirstBoundaryOnDownbeat ==
  (QuantizedDone /\ seg.src.beat_resolution % 2 = 0) =>
    seg.r.tick_boundaries[1] % (4 * seg.src.beat_resolution) = 0

----------------------------------------------------------------------------
(* C23 *)

\* File f, of globals matching controller c, holds for the feature id of c a
\* block whose stored params lack one of the parameter names of c.
LacksParamName(f, c) ==
  /\ GlobalsMatch(f, c.sr, c.hop_length, c.dur, c.tempo)
  /\ HasKey(f.obj, c.id)
  /\ HasKey(f.obj[c.id], "params")
  /\ ParamNameSet \ DOMAIN f.obj[c.id]["params"] # {}

\* C23: read_features reports such a block as a parameter mismatch,
\* FeatureParamsError, and a write_features on it replaces that block only,
\* keeping the blocks of the other feature ids.
C23_MissingParamIsMismatch ==
  /\ (last.op = "read_features" /\ LacksParamName(last.pre_file, ctl))
       => last.out = "FeatureParamsError"
  /\ (last.op = "write_features" /\ last.wrote /\ LacksParamName(last.pre_file, ctl))
       => \A id \in BlockIds(last.pre_file) \ {ctl.id} :
            /\ file.kind = "json"
            /\ HasKey(file.obj, id)
            /\ file.obj[id] = last.pre_file.obj[id]

----------------------------------------------------------------------------
(* C24 *)

\* The keys of a feature block every block has.
BlockKeys == {"params", "framesync", "est_beatsync"}

\* File f, if it exists, is a record with globals, the estimated beat grids
\* and at least one feature block with its params and its two matrices.
WellFormedSidecar(f) ==
  f.kind # "absent" =>
    /\ f.kind = "json"
    /\ {"globals", "est_beats", "est_beatsync_times"} \subseteq DOMAIN f.obj
    /\ \E id \in BlockIds(f) : BlockKeys \subseteq DOMAIN f.obj[id]

\* C24: once write_features has written the sidecar, whatever the file held
\* before, the sidecar is well formed.
C24_SidecarWellFormed ==
  nwrites > 0 => WellFormedSidecar(file)

----------------------------------------------------------------------------
(* C25 *)

\* C25: for an item of positive tempo and positive beat_resolution,
\* ticks_per_second is positive, every segment has a start time in seconds
\* and that time multiplied by ticks_per_second gives the segment's tick
\* back (to the millisecond the times are kept in).
C25_TicksPerSecondPositive ==
  (QuantizedDone /\ seg.src.tempo > 0 /\ seg.src.beat_resolution > 0) =>
    LET tps == TicksPerSecond(seg.src.tempo, seg.src.beat_resolution) IN
    /\ tps > 0
    /\ \A j \in 1..Len(seg.r.tick_boundaries) :
         /\ seg.r.second_boundaries[j] # None
         /\ Abs(Val(seg.r.second_boundaries[j]) * tps
                  - seg.r.tick_boundaries[j] * MsPerSecond) < tps

----------------------------------------------------------------------------
(* C26 *)

\* segment_song reached its labeling pass: the oracle returned boundaries
\* and the piano-roll was loaded.
ReachedLabeling ==
  /\ seg.pc = "done"
  /\ ~seg.oracle.raises
  /\ seg.oracle.boundaries # <<>>
  /\ seg.src.exists

\* C26: whatever the number of distinct raw labels among the kept
\* boundaries, the labeling pass completes and every segment's label is one
\* of the letters 'A'..'Z'.
C26_AnyNumberOfLabels ==
  ReachedLabeling =>
    /\ seg.r.out = "ok"
    /\ Len(seg.r.letter_labels) = Len(seg.r.new_labels)
    /\ \A j \in 1..Len(seg.r.letter_labels) :
         \E n \in 1..Len(ascii_uppercase) : seg.r.letter_labels[j] = ascii_uppercase[n]

----------------------------------------------------------------------------
(* C27 *)

\* The start ticks of the segments returned never go down.
TicksInOrder ==
  \A j \in 2..Len(seg.r.tick_boundaries) :
    seg.r.tick_boundaries[j - 1] <= seg.r.tick_boundaries[j]

\* C27, as stated: for strictly increasing raw boundaries and every
\* positive tempo and beat_resolution, the start ticks of the output segments
\* are non-decreasing along the output.
C27_OrderPreserved ==
  QuantizedDone => TicksInOrder

\* C27, amended: the start ticks are non-decreasing for the items whose
\* ticks_per_second is at least beat_resolution (a tempo of 60 or more),
\* where the more than MIN_SEGMENT_LEN seconds between two kept boundaries
\* span more ticks than the two grids can round away.
C27_OrderPreservedAtTempo ==
  ( /\ QuantizedDone
    /\ TicksPerSecond(seg.src.tempo, seg.src.beat_resolution) >= seg.src.beat_resolution )
  => TicksInOrder

\* C27 happens: two kept boundaries quantized on different grids, the
\* first on the beat grid and the second on the downbeat grid, at such a
\* tempo.
C27_Witness ==
  /\ QuantizedDone
  /\ TicksPerSecond(seg.src.tempo, seg.src.beat_resolution) >= seg.src.beat_resolution
  /\ Len(seg.r.new_labels) = 2
  /\ seg.r.new_labels[1] = prev_l
  /\ seg.r.new_labels[2] # prev_l
  /\ seg.r.tick_boundaries[1] % (4 * seg.src.beat_resolution) # 0
  /\ seg.r.tick_boundaries[1] < seg.r.tick_boundaries[2]

----------------------------------------------------------------------------
(* C28 *)

StrictlyIncreasing(boundaries) ==
  \A i \in 2..Len(boundaries) : boundaries[i - 1] < boundaries[i]

\* C28: for strictly increasing raw boundaries, two consecutive kept
\* boundaries are more than MIN_SEGMENT_LEN seconds apart, although each
\* boundary is compared with its raw predecessor only, in one forward pass.
C28_KeptBoundariesApart ==
  (Merged /\ StrictlyIncreasing(seg.oracle.boundaries)) =>
    \A j \in 2..Len(seg.r.new_boundaries) :
      seg.r.new_boundaries[j] - seg.r.new_boundaries[j - 1] > MIN_SEGMENT_LEN * MsPerSecond

\* C28 happens: a boundary was dropped between two kept ones, so the second
\* kept boundary was not compared with the first.
C28_Witness ==
  /\ Merged
  /\ StrictlyIncreasing(seg.oracle.boundaries)
  /\ Len(seg.oracle.boundaries) = 3
  /\ seg.r.new_boundaries = <<seg.oracle.boundaries[1], seg.oracle.boundaries[3]>>

----------------------------------------------------------------------------
(* C29 *)

\* In outputs out every item that has its output directory has its
\* segmentation file.
NoDirWithoutFile(out) == \A k \in Items : out[k].dir => out[k].file # None

\* C29: over the runs of the driver, the runs an exception ended included,
\* starting from outputs where no directory is without its file: an item the
\* driver skips has its segmentation file, and when a run is over no item has
\* its output directory without its segmentation file.
C29_SkippedItemsHaveFile ==
  NoDirWithoutFile(drv.start) =>
    /\ \A k \in drv.visited : drv.out0[k].dir => drv.out[k].file # None
    /\ RunOver => NoDirWithoutFile(drv.out)

----------------------------------------------------------------------------
(* C30 *)

\* The last call was a features request whose read_features succeeded.
CacheHit == last.op \in GetterCalls /\ last.read_out = "ok"

\* C30: a features request whose read_features succeeds does not run the
\* extractor, does not load the source and does not write the sidecar: the
\* file is what it was before the request.
C30_CacheHitHasNoEffects ==
  CacheHit =>
    /\ ~last.computed
    /\ ~last.loaded
    /\ ~last.wrote
    /\ file = last.pre_file

\* C30 happens: the features getter returned the stored matrix of a sidecar.
C30_Witness ==
  /\ last.op = "features"
  /\ last.read_out = "ok"
  /\ last.out = "ok"
  /\ last.ret # None
  /\ file.kind = "json"
  /\ file = last.pre_file

----------------------------------------------------------------------------
(* C31 *)

\* File f holds no usable block for controller c: no block of its feature
\* id, or a block whose stored parameters differ from its fingerprint.
NoUsableBlock(f, c) ==
  \/ ~HasKey(f.obj, c.id)
  \/ /\ HasFullBlock(f, c.id)
     /\ f.obj[c.id]["params"] # Fingerprint(c)

\* The last call ran read_features on a record whose globals do not match
\* what the controller held when the call began (its sample rate, its hop
\* length, the audio file name, and its duration and tempo if it had any)
\* and that holds no usable block for it.
StaleRecordWithoutBlock ==
  /\ HasGlobals(last.pre_file)
  /\ ~GlobalsMatch(last.pre_file, ctl.sr, ctl.hop_length, last.pre_dur, last.pre_tempo)
  /\ NoUsableBlock(last.pre_file, ctl)

\* C31: on such a record read_features fails with FeaturesNotFound, the
\* error of the globals, so that a write_features on it builds the record
\* anew, with the controller's globals and its block alone, instead of
\* adding the block to the stale record; FeatureParamsError is raised only
\* when every check of the globals passed.
C31_GlobalsBeforeParams ==
  /\ (last.op = "read_features" /\ StaleRecordWithoutBlock)
       => last.out = "FeaturesNotFound"
  /\ (last.op = "write_features" /\ StaleRecordWithoutBlock)
       => /\ last.read_out = "FeaturesNotFound"
          /\ last.wrote =>
               /\ file.kind = "json"
               /\ RequiredKeys \cup {ctl.id} \subseteq DOMAIN file.obj
               /\ DOMAIN file.obj \subseteq RequiredKeys \cup AnnotatedKeys \cup {ctl.id}
               /\ GlobalsMatch(file, ctl.sr, ctl.hop_length, ctl.dur, ctl.tempo)
  /\ (last.op = "read_features" /\ last.out = "FeatureParamsError")
       => GlobalsMatch(last.pre_file, ctl.sr, ctl.hop_length, last.pre_dur, last.pre_tempo)

\* C31 happens: write_features met a record of other globals that held a
\* block of other parameters for the feature id beside a block of another
\* id, and wrote a record without that other block.
C31_Witness ==
  /\ last.op = "write_features"
  /\ StaleRecordWithoutBlock
  /\ HasKey(last.pre_file.obj, ctl.id)
  /\ BlockIds(last.pre_file) \ {ctl.id} # {}
  /\ last.read_out = "FeaturesNotFound"
  /\ last.wrote
  /\ BlockIds(file) = {ctl.id}

----------------------------------------------------------------------------
(* utils/dirs.py: the search for the root of the repository *)

\* Number of components of the longest path looked up.
MaxDepth == 3

\* The largest max_levels a caller gives.
MaxLevels == 3

\* A path is the sequence of its components below the root directory "/".
\* The file tree along a path: the paths of up to dirs components are
\* directories (the root is one, what lies deeper is a file or does not
\* exist), markers are the depths of the directories that hold a .git or a
\* .gitroot entry.
Tree(dirs, markers) == [dirs |-> dirs, markers |-> markers]

\* op.dirname and op.basename of an absolute path; the root is its own parent
\* and has the empty name.
Dirname(path) == IF path = <<>> THEN <<>> ELSE SubSeq(path, 1, Len(path) - 1)

LastName(path) == IF path = <<>> THEN "" ELSE path[Len(path)]

\* op.join(path, name)
Join(path, name) == IF name = "" THEN path ELSE Append(path, name)

\* Line 54: op.exists(op.join(path, '.git')) or op.exists(op.join(path, '.gitroot'))
HasMarker(path, tree) == Len(path) \in tree.markers

\* Line 56: op.isdir(path)
IsDir(path, tree) == Len(path) <= tree.dirs

\* children[::-1]
Reverse(s) == [i \in 1..Len(s) |-> s[Len(s) + 1 - i]]

\* Lines 56-57: the children after the body of the loop ran on path.
WithChild(children, path, tree) ==
  IF IsDir(path, tree) THEN Append(children, LastName(path)) ELSE children

\* Lines 53-58: the loop from iteration li on; path, children and li when
\* the loop is left, by the break or after the iteration li = max_levels.
RECURSIVE ClimbFrom(_, _, _, _, _)
ClimbFrom(path, tree, li, max_levels, children) ==
  IF HasMarker(path, tree) THEN [path |-> path, children |-> children, li |-> li]
  ELSE IF li = max_levels
  THEN [path |-> Dirname(path), children |-> WithChild(children, path, tree), li |-> li]
  ELSE ClimbFrom(Dirname(path), tree, li + 1, max_levels, WithChild(children, path, tree))

\* What a function of the module leaves: the exception or "ok", the value
\* returned (the root or the directory, None or Some) and the children.
Looked(out, ret, children) == [out |-> out, ret |-> ret, children |-> children]

\* Lines 60-63: the test on li after the loop.
AfterLoop(l, max_levels) ==
  IF l.li <= max_levels THEN Looked("ok", Some(l.path), Reverse(l.children))
  ELSE Looked("ok", None, <<>>)

\* _repo_dir_and_children(path, max_levels).  With max_levels < 0 the loop
\* has no iteration and li is not bound when line 60 reads it.
repo_dir_and_children(path, tree, max_levels) ==
  IF max_levels < 0 THEN Looked("UnboundLocalError", None, <<>>)
  ELSE AfterLoop(ClimbFrom(path, tree, 0, max_levels, <<>>), max_levels)

\* repo_dir(path, max_levels)
repo_dir(path, tree, max_levels) ==
  Looked(repo_dir_and_children(path, tree, max_levels).out,
         repo_dir_and_children(path, tree, max_levels).ret, <<>>)

\* Line 144
DataScienceDirs == {"data", "models", "reports", "src"}

\* Lines 140-152 of base_dir, r the result of _repo_dir_and_children.
BaseOf(r, base) ==
  IF r.out # "ok" THEN Looked(r.out, None, <<>>)
  ELSE IF r.ret # None /\ base # None
  THEN Looked("ok", Some(Join(Val(r.ret), Val(base))), <<>>)
  ELSE IF r.ret # None /\ r.children # <<>>
  THEN IF r.children[1] \in DataScienceDirs
       THEN Looked("ok", r.ret, <<>>)
       ELSE Looked("ok", Some(Join(Val(r.ret), r.children[1])), <<>>)
  ELSE Looked("ok", None, <<>>)

\* base_dir(path, base, max_levels)
base_dir(path, base, tree, max_levels) ==
  BaseOf(repo_dir_and_children(path, tree, max_levels), base)

\* The paths looked up: prefixes of /src/sub/sub and of /proj/sub/sub.
Chain(top) == [i \in 1..MaxDepth |-> IF i = 1 THEN top ELSE "sub"]

LookupPaths == {SubSeq(Chain(top), 1, d) : top \in {"src", "proj"}, d \in 0..MaxDepth}

\* The file trees along a path: a marker lies in a directory.
Trees(path) ==
  UNION {{Tree(dirs, markers) : markers \in SUBSET (0..dirs)} : dirs \in 0..Len(path)}

\* A call on path, in tree, with max_levels is to be made.
Lookup(path, tree, max_levels) ==
  [pc |-> "pending", path |-> path, tree |-> tree, max_levels |-> max_levels]

InitDirs ==
  /\ rd \in UNION {{Lookup(path, tree, max_levels) :
                      tree \in Trees(path), max_levels \in (-1)..MaxLevels} :
                     path \in LookupPaths}
  /\ audio = Source(FALSE, MaxTimestep)
  /\ file = Absent
  /\ ctl = NoController
  /\ last = NoCall
  /\ written = NotWritten
  /\ nwrites = 0
  /\ wr = NoWrite
  /\ seg = NoSegmentation
  /\ drv = NoDriver

\* The call was made: op is the function, base the base it was given.
LookedUp(l, op, base, r) ==
  [pc |-> "done", path |-> l.path, tree |-> l.tree, max_levels |-> l.max_levels,
   op |-> op, base |-> base, out |-> r.out, ret |-> r.ret, children |-> r.children]

\* _repo_dir_and_children(path, max_levels)
RepoDirAndChildren ==
  /\ rd.pc = "pending"
  /\ rd' = LookedUp(rd, "_repo_dir_and_children", None,
                    repo_dir_and_children(rd.path, rd.tree, rd.max_levels))
  /\ UNCHANGED <<file, audio, ctl, last, written, nwrites, wr, seg, drv>>

\* repo_dir(path, max_levels)
RepoDir ==
  /\ rd.pc = "pending"
  /\ rd' = LookedUp(rd, "repo_dir", None, repo_dir(rd.path, rd.tree, rd.max_levels))
  /\ UNCHANGED <<file, audio, ctl, last, written, nwrites, wr, seg, drv>>

\* base_dir(path, base, max_levels)
BaseDir ==
  /\ rd.pc = "pending"
  /\ \E base \in {None, Some("base")} :
       rd' = LookedUp(rd, "base_dir", base,
                      base_dir(rd.path, base, rd.tree, rd.max_levels))
  /\ UNCHANGED <<file, audio, ctl, last, written, nwrites, wr, seg, drv>>

NextDirs ==
  \/ RepoDirAndChildren
  \/ RepoDir
  \/ BaseDir

SpecDirs == InitDirs /\ [][NextDirs]_vars

----------------------------------------------------------------------------
(* C32 *)

\* The depths of the directories the loop can examine: the path and its
\* max_levels parents.
Examined ==
  {IF Len(rd.path) - k > 0 THEN Len(rd.path) - k ELSE 0 : k \in 0..rd.max_levels}

\* A call returned and none of the directories examined holds a .git or a
\* .gitroot entry.
NothingFound ==
  /\ rd.pc = "done"
  /\ rd.max_levels >= 0
  /\ rd.tree.markers \cap Examined = {}

\* C32: when none of the directories examined within max_levels levels above
\* path holds a .git or .gitroot entry, _repo_dir_and_children returns
\* (None, []) and repo_dir and base_dir return None; the root
\* _repo_dir_and_children returns is not None only when it holds such an
\* entry.
C32_RootNotFound ==
  /\ NothingFound => rd.ret = None /\ rd.children = <<>>
  /\ ( /\ rd.pc = "done"
       /\ rd.max_levels >= 0
       /\ rd.op = "_repo_dir_and_children"
       /\ rd.ret # None )
     => Len(Val(rd.ret)) \in rd.tree.markers

====
